---------------------------- MODULE Spec2Model ----------------------------
(***************************************************************************)
(* A model of the static blog site lab176344/lb.github.io.                 *)
(*                                                                         *)
(* The repository holds no executable logic of its own: it is two          *)
(* declarative configuration files and one Markdown article.  The model    *)
(* therefore carries the text of those files, character by character,      *)
(* and a reader that loads the two configuration records, resolves the     *)
(* content globs against the repository's files, and scans the article     *)
(* line by line (front-matter first, then the body with a two-state        *)
(* code-fence scanner).                                                    *)
(*                                                                         *)
(* Text is a sequence of one-character strings.  A character that a TLA+   *)
(* string cannot hold (the backtick, and any character outside ASCII) is   *)
(* written as its code point: "U+0060", "U+2019".                          *)
(***************************************************************************)
EXTENDS Integers, Sequences, FiniteSets

(***************************************************************************)
(* Character classes and small helpers on text.                            *)
(***************************************************************************)
Digits == {"0","1","2","3","4","5","6","7","8","9"}

LowerHex == {"a","b","c","d","e","f"}

UpperHex == {"A","B","C","D","E","F"}

HexDigits == Digits \cup LowerHex \cup UpperHex

Lower == {"a","b","c","d","e","f","g","h","i","j","k","l","m",
          "n","o","p","q","r","s","t","u","v","w","x","y","z"}

Upper == {"A","B","C","D","E","F","G","H","I","J","K","L","M",
          "N","O","P","Q","R","S","T","U","V","W","X","Y","Z"}

Alpha == Lower \cup Upper

DigitVal(c) ==
  CASE c = "0" -> 0 [] c = "1" -> 1 [] c = "2" -> 2 [] c = "3" -> 3
    [] c = "4" -> 4 [] c = "5" -> 5 [] c = "6" -> 6 [] c = "7" -> 7
    [] c = "8" -> 8 [] c = "9" -> 9

\* The backtick.
Backtick == "U+0060"

\* The least and the greatest of a non-empty set of integers.
Min(S) == CHOOSE x \in S : \A y \in S : x <= y

Max(S) == CHOOSE x \in S : \A y \in S : x >= y

\* The text s from position k to its end.
From(s, k) == IF k > Len(s) THEN << >> ELSE SubSeq(s, k, Len(s))

\* Whether the text s begins with the text p.
StartsWith(s, p) == Len(s) >= Len(p) /\ SubSeq(s, 1, Len(p)) = p

\* The first position >= k at which s holds the character c, or 0.
IndexFrom(s, c, k) ==
  LET at == {j \in k..Len(s) : s[j] = c}
  IN  IF at = {} THEN 0 ELSE Min(at)

\* The number of times the character c stands at the start of s.
LeadingRun(s, c) ==
  LET other == {j \in 1..Len(s) : s[j] # c}
  IN  IF other = {} THEN Len(s) ELSE Min(other) - 1

\* The number of times the character c stands just before position k of s.
RunBefore(s, c, k) ==
  LET other == {j \in 1..(k - 1) : s[j] # c}
  IN  IF other = {} THEN k - 1 ELSE k - 1 - Max(other)

\* The number of leading spaces of s.
Indent(s) == LeadingRun(s, " ")

\* s without its leading spaces.
TrimLeft(s) == From(s, Indent(s) + 1)

\* s without its trailing spaces.
TrimRight(s) == SubSeq(s, 1, Len(s) - RunBefore(s, " ", Len(s) + 1))

Trim(s) == TrimRight(TrimLeft(s))

\* The elements of a sequence, as a set.
Range(s) == {s[k] : k \in 1..Len(s)}

\* The integers of the finite set S, in increasing order.
Sorted(S) ==
  [k \in 1..Cardinality(S) |-> CHOOSE x \in S : Cardinality({y \in S : y < x}) = k - 1]

\* The pieces of s between the positions of the set at, the characters at
\* those positions left out.
Pieces(s, at) ==
  LET cuts == Sorted(at)
  IN  [k \in 1..(Len(cuts) + 1) |->
         SubSeq(s,
                IF k = 1 THEN 1 ELSE cuts[k - 1] + 1,
                IF k = Len(cuts) + 1 THEN Len(s) ELSE cuts[k] - 1)]

\* s split at every occurrence of the character c.
Split(s, c) == Pieces(s, {j \in 1..Len(s) : s[j] = c})

\* Whether the character at position k of s is escaped: an odd number of
\* backslashes stands just before it.
Escaped(s, k) == RunBefore(s, "\\", k) % 2 = 1

(***************************************************************************)
(* astro.config.mjs: the site configuration record.                        *)
(***************************************************************************)
\* A plausible slip of site: the scheme left out.
site_NoScheme ==
  <<"l","a","b","1","7","6","3","4","4",".","g","i","t","h","u","b",".","i","o">>

site ==
  <<"h","t","t","p","s",":","/","/","l","a","b","1","7","6","3","4","4",".","g","i","t","h","u",
    "b",".","i","o">>

base == <<"/">>

\* tailwind() of @astrojs/tailwind: the integration it returns, by name.
tailwind == "@astrojs/tailwind"

integrations == <<tailwind>>

\* defineConfig of astro/config returns the record it is given.
defineConfig(config) == config

astroConfig ==
  defineConfig([site |-> site, base |-> base, integrations |-> integrations])

(***************************************************************************)
(* tailwind.config.mjs: the theme configuration record.                    *)
(***************************************************************************)
\* A plausible slip of content: the globstar directory segment left out.
content_NoGlobstar ==
  << <<".","/","s","r","c","/","*",".","{","a","s","t","r","o",",","h","t","m","l",",",
       "j","s",",","j","s","x",",","m","d",",","m","d","x",",","s","v","e","l","t","e",",","t",
       "s",",","t","s","x",",","v","u","e","}">> >>

content ==
  << <<".","/","s","r","c","/","*","*","/","*",".","{","a","s","t","r","o",",","h","t","m","l",",",
       "j","s",",","j","s","x",",","m","d",",","m","d","x",",","s","v","e","l","t","e",",","t",
       "s",",","t","s","x",",","v","u","e","}">> >>

\* A plausible slip of colors: fg cut short.
colors_Shorthand ==
  [tui |-> << <<"bg",        <<"#","1","a","1","b","2","6">> >>,
              <<"fg",        <<"#","a","9","b">> >>,
              <<"accent",    <<"#","9","e","c","e","6","a">> >>,
              <<"dim",       <<"#","5","6","5","f","8","9">> >>,
              <<"border",    <<"#","4","1","4","8","6","8">> >>,
              <<"selection", <<"#","3","3","4","6","7","c">> >> >>]

\* The object literal's properties, in the order written: <<key, value>>.
colors ==
  [tui |-> << <<"bg",        <<"#","1","a","1","b","2","6">> >>,
              <<"fg",        <<"#","a","9","b","1","d","6">> >>,
              <<"accent",    <<"#","9","e","c","e","6","a">> >>,
              <<"dim",       <<"#","5","6","5","f","8","9">> >>,
              <<"border",    <<"#","4","1","4","8","6","8">> >>,
              <<"selection", <<"#","3","3","4","6","7","c">> >> >>]

fontFamily ==
  [mono |-> << <<"\"","J","e","t","B","r","a","i","n","s"," ","M","o","n","o","\"">>,
               <<"\"","F","i","r","a"," ","C","o","d","e","\"">>,
               <<"m","o","n","o","s","p","a","c","e">> >>]

\* The module binds no require: the call on line 21 reads whatever the
\* loader of the module provides.  Node's own loader of ES modules provides
\* none, and the call throws a ReferenceError; a loader that provides one
\* returns the module asked for (here, by its name).
require(id, requireDefined) ==
  IF requireDefined
  THEN [threw |-> FALSE, error |-> "", value |-> id]
  ELSE [threw |-> TRUE, error |-> "ReferenceError", value |-> ""]

\* The plugins array literal: each element evaluated in turn.
plugins(requireDefined) == <<require("@tailwindcss/typography", requireDefined)>>

\* The record before any of the module is evaluated.
NoThemeConfig ==
  [content |-> << >>,
   theme   |-> [extend |-> [colors |-> [tui |-> << >>], fontFamily |-> [mono |-> << >>]]],
   plugins |-> << >>]

\* The object literal's properties are evaluated in the order written:
\* content, then theme.
themeWithContent == [NoThemeConfig EXCEPT !.content = content]

themeWithExtend ==
  [themeWithContent EXCEPT
     !.theme = [extend |-> [colors |-> colors, fontFamily |-> fontFamily]]]

\* The evaluation of the whole module: the default export, or the error
\* thrown while the plugins property is evaluated, in which case nothing is
\* exported.
tailwindConfig(requireDefined) ==
  LET ps     == plugins(requireDefined)
      failed == {k \in 1..Len(ps) : ps[k].threw}
  IN  IF failed # {}
      THEN [threw |-> TRUE, error |-> ps[Min(failed)].error, value |-> NoThemeConfig]
      ELSE [threw |-> FALSE,
            error |-> "",
            value |-> [themeWithExtend EXCEPT
                         !.plugins = [k \in 1..Len(ps) |-> ps[k].value]]]

(***************************************************************************)
(* The repository's files, by path from the project root.                  *)
(***************************************************************************)
astroConfigPath == <<"a","s","t","r","o",".","c","o","n","f","i","g",".","m","j","s">>

tailwindConfigPath ==
  <<"t","a","i","l","w","i","n","d",".","c","o","n","f","i","g",".","m","j","s">>

indexMdPath ==
  <<"s","r","c","/","c","o","n","t","e","n","t","/","b","l","o","g","/","b","i","g","-","q","u",
    "e","r","y","/","i","n","d","e","x",".","m","d">>

RepoFiles == <<astroConfigPath, tailwindConfigPath, indexMdPath>>

(***************************************************************************)
(* src/content/blog/big-query/index.md, line by line.                      *)
(***************************************************************************)
indexMdText ==
  <<
    (*   1 *) <<"-","-","-">>,
    (*   2 *) <<"t","i","t","l","e",":"," ","\"","A"," ","G","u","i","d","e"," ","t","o"," ","B","i","g","Q",
              "u","e","r","y"," ","O","p","t","i","m","i","s","a","t","i","o","n",":"," ","P",
              "e","r","f","o","r","m","a","n","c","e",","," ","C","o","s","t",","," ","a","n",
              "d"," ","A","r","c","h","i","t","e","c","t","u","r","e","\"">>,
    (*   3 *) <<"d","e","s","c","r","i","p","t","i","o","n",":"," ","\"","A","n"," ","o","v","e","r","v","i",
              "e","w"," ","o","f"," ","B","i","g","Q","u","e","r","y"," ","a","r","c","h","i",
              "t","e","c","t","u","r","e",","," ","s","t","o","r","a","g","e"," ","s","t","r",
              "a","t","e","g","i","e","s",","," ","a","n","d"," ","q","u","e","r","y"," ","o",
              "p","t","i","m","i","s","a","t","i","o","n"," ","t","e","c","h","n","i","q","u",
              "e","s"," ","b","a","s","e","d"," ","o","n"," ","r","e","a","l","-","w","o","r",
              "l","d"," ","c","a","s","e"," ","s","t","u","d","i","e","s",".","\"">>,
    (*   4 *) <<"p","u","b","D","a","t","e",":"," ","\"","2","0","2","6","-","0","2","-","1","3","\"">>,
    (*   5 *) <<"t","a","g","s",":"," ","[","\"","b","i","g","-","q","u","e","r","y","\"",","," ","\"","g",
              "c","p","\"",","," ","\"","d","a","t","a","-","e","n","g","i","n","e","e","r","i",
              "n","g","\"",","," ","\"","s","q","l","-","o","p","t","i","m","i","s","a","t","i",
              "o","n","\"","]">>,
    (*   6 *) <<"-","-","-">>,
    (*   7 *) << >>,
    (*   8 *) <<"B","i","g","Q","u","e","r","y"," ","i","s"," ","a"," ","t","o","o","l"," ","f","o","r"," ",
              "p","r","o","c","e","s","s","i","n","g"," ","l","a","r","g","e"," ","d","a","t",
              "a","s","e","t","s",","," ","b","u","t"," ","i","t","s"," ","p","e","r","f","o",
              "r","m","a","n","c","e"," ","a","n","d">>,
    (*   9 *) <<"c","o","s","t"," ","d","e","p","e","n","d"," ","o","n"," ","h","o","w"," ","i","t"," ","i",
              "s"," ","u","s","e","d","."," ","W","i","t","h","o","u","t"," ","a","n"," ","u",
              "n","d","e","r","s","t","a","n","d","i","n","g"," ","o","f"," ","i","t","s"," ",
              "a","r","c","h","i","t","e","c","t","u","r","e",",">>,
    (*  10 *) <<"q","u","e","r","i","e","s"," ","c","a","n"," ","b","e"," ","s","l","o","w"," ","a","n","d",
              " ","e","x","p","e","n","s","i","v","e",".">>,
    (*  11 *) <<" ","U","n","l","i","k","e"," ","t","r","a","d","i","t","i","o","n","a","l"," ","r","e","l",
              "a","t","i","o","n","a","l"," ","d","a","t","a","b","a","s","e","s"," ","w","h",
              "e","r","e"," ","p","e","r","f","o","r","m","a","n","c","e"," ","i","s"," ","o",
              "f","t","e","n">>,
    (*  12 *) <<"m","e","a","s","u","r","e","d"," ","b","y"," ","e","x","e","c","u","t","i","o","n"," ","t",
              "i","m","e",","," ","B","i","g","Q","u","e","r","y"," ","d","e","m","a","n","d",
              "s"," ","a"," ","s","h","i","f","t"," ","i","n"," ","f","o","c","u","s",":"," ",
              "*","*","y","o","u"," ","a","r","e"," ","b","i","l","l","e","d">>,
    (*  13 *) <<"f","o","r"," ","t","h","e"," ","d","a","t","a"," ","y","o","u"," ","s","c","a","n",","," ",
              "n","o","t"," ","t","h","e"," ","t","i","m","e"," ","y","o","u"," ","s","p","e",
              "n","d"," ","s","c","a","n","n","i","n","g"," ","i","t",".","*","*">>,
    (*  14 *) << >>,
    (*  15 *) <<"W","e"," ","a","r","e"," ","f","o","c","u","s","i","n","g"," ","o","n","l","y"," ","o","n",
              " ","t","h","e"," ","o","n","-","d","e","m","a","n","d"," ","p","a","y","-","a",
              "s","-","y","o","u","-","g","o"," ","m","o","d","e","l",","," ","a","s"," ","i",
              "t"," ","i","s"," ","t","h","e"," ","m","o","s","t"," ","c","o","m","m","o","n",
              " ","a","n","d"," ","r","e","l","e","v","a","n","t"," ","f","o","r"," ","o","p",
              "t","i","m","i","s","a","t","i","o","n",".">>,
    (*  16 *) << >>,
    (*  17 *) <<"#","#"," ","1","."," ","U","n","d","e","r","s","t","a","n","d","i","n","g"," ","t","h","e",
              " ","A","r","c","h","i","t","e","c","t","u","r","e",":"," ","S","t","o","r","a",
              "g","e"," ","v","s","."," ","C","o","m","p","u","t","e">>,
    (*  18 *) << >>,
    (*  19 *) <<"T","o"," ","o","p","t","i","m","i","s","e"," ","B","i","g","Q","u","e","r","y",","," ","y",
              "o","u"," ","m","u","s","t"," ","f","i","r","s","t"," ","u","n","d","e","r","s",
              "t","a","n","d"," ","h","o","w"," ","i","t"," ","s","e","p","a","r","a","t","e",
              "s"," ","s","t","o","r","a","g","e"," ","f","r","o","m">>,
    (*  20 *) <<"c","o","m","p","u","t","e","."," ","Y","o","u","r"," ","d","a","t","a"," ","l","i","v","e",
              "s"," ","i","n"," ","*","*","C","o","l","o","s","s","u","s","*","*",","," ","G",
              "o","o","g","l","e","U+2019","s"," ","d","i","s","t","r","i","b","u","t","e","d",
              " ","f","i","l","e"," ","s","y","s","t","e","m",",">>,
    (*  21 *) <<"s","t","o","r","e","d"," ","i","n"," ","a"," ","p","r","o","p","r","i","e","t","a","r","y",
              " ","c","o","l","u","m","n","a","r"," ","f","o","r","m","a","t"," ","c","a","l",
              "l","e","d"," ","*","*","C","a","p","a","c","i","t","o","r","*","*","."," ","W",
              "h","e","n"," ","y","o","u"," ","e","x","e","c","u","t","e"," ","a">>,
    (*  22 *) <<"q","u","e","r","y",","," ","t","h","e"," ","*","*","D","r","e","m","e","l","*","*"," ","e",
              "n","g","i","n","e"," ","a","l","l","o","c","a","t","e","s"," ","c","o","m","p",
              "u","t","e"," ","s","l","o","t","s"," ","t","o"," ","p","r","o","c","e","s","s",
              " ","t","h","a","t"," ","d","a","t","a",".">>,
    (*  23 *) << >>,
    (*  24 *) <<"T","h","e"," ","c","o","n","n","e","c","t","i","o","n"," ","b","e","t","w","e","e","n"," ",
              "t","h","e","s","e"," ","t","w","o"," ","l","a","y","e","r","s"," ","i","s"," ",
              "a"," ","h","i","g","h","-","b","a","n","d","w","i","d","t","h"," ","n","e","t",
              "w","o","r","k",".">>,
    (*  25 *) <<" ","W","h","i","l","e"," ","t","h","i","s"," ","n","e","t","w","o","r","k"," ","e","n","s",
              "u","r","e","s"," ","f","a","s","t"," ","d","a","t","a"," ","m","o","v","e","m",
              "e","n","t"," ","f","r","o","m"," ","s","t","o","r","a","g","e"," ","t","o"," ",
              "c","o","m","p","u","t","e",",">>,
    (*  26 *) <<"d","a","t","a"," ","m","o","v","e","m","e","n","t"," ","*","b","e","t","w","e","e","n","*",
              " ","c","o","m","p","u","t","e"," ","s","l","o","t","s"," ","(","s","h","u","f",
              "f","l","i","n","g",")"," ","d","u","r","i","n","g"," ","c","o","m","p","l","e",
              "x">>,
    (*  27 *) <<"o","p","e","r","a","t","i","o","n","s"," ","l","i","k","e"," ","j","o","i","n","s"," ","o",
              "r"," ","a","g","g","r","e","g","a","t","i","o","n","s"," ","i","s"," ","a"," ",
              "c","o","m","m","o","n"," ","p","e","r","f","o","r","m","a","n","c","e"," ","b",
              "o","t","t","l","e","n","e","c","k",".">>,
    (*  28 *) <<"T","h","e"," ","i","n","i","t","i","a","l"," ","l","o","a","d"," ","b","o","t","t","l","e",
              "n","e","c","k"," ","i","s"," ","u","s","u","a","l","l","y"," ","t","h","e"," ",
              "s","h","e","e","r"," ","v","o","l","u","m","e"," ","o","f"," ","d","a","t","a",
              " ","b","e","i","n","g">>,
    (*  29 *) <<"p","u","l","l","e","d"," ","f","r","o","m"," ","s","t","o","r","a","g","e",".">>,
    (*  30 *) << >>,
    (*  31 *) <<"#","#","#"," ","T","h","e"," ","B","i","l","l","i","n","g"," ","M","o","d","e","l">>,
    (*  32 *) << >>,
    (*  33 *) <<"*"," ","*","*","O","n","-","D","e","m","a","n","d",":","*","*"," ","C","o","s","t","s"," ",
              "d","e","p","e","n","d"," ","o","n"," ","t","h","e"," ","a","m","o","u","n","t",
              " ","o","f"," ","d","a","t","a"," ","s","c","a","n","n","e","d",".">>,
    (*  34 *) <<"*"," ","*","*","S","t","o","r","a","g","e",":","*","*"," ","C","o","s","t","s"," ","d","e",
              "p","e","n","d"," ","o","n"," ","t","h","e"," ","v","o","l","u","m","e"," ","o",
              "f"," ","d","a","t","a"," ","s","t","o","r","e","d",","," ","w","i","t","h"," ",
              "l","o","w","e","r"," ","r","a","t","e","s"," ","f","o","r">>,
    (*  35 *) <<" "," ","d","a","t","a"," ","t","h","a","t"," ","h","a","s"," ","n","o","t"," ","b","e","e",
              "n"," ","m","o","d","i","f","i","e","d"," ","f","o","r"," ","9","0"," ","d","a",
              "y","s",".">>,
    (*  36 *) << >>,
    (*  37 *) <<"*","*","K","e","y"," ","T","a","k","e","a","w","a","y",":","*","*"," ","A"," ","5","-","s",
              "e","c","o","n","d"," ","q","u","e","r","y"," ","i","s","n","'","t"," ","n","e",
              "c","e","s","s","a","r","i","l","y"," ","a"," ","c","h","e","a","p"," ","q","u",
              "e","r","y","."," ","A","l","w","a","y","s"," ","w","a","t","c","h">>,
    (*  38 *) <<"t","h","e"," ","\"","b","y","t","e","s"," ","p","r","o","c","e","s","s","e","d","\""," ","m",
              "e","t","r","i","c"," ","r","a","t","h","e","r"," ","t","h","a","n"," ","t","h",
              "e"," ","c","l","o","c","k",".">>,
    (*  39 *) << >>,
    (*  40 *) <<"-","-","-">>,
    (*  41 *) << >>,
    (*  42 *) <<"#","#"," ","2","."," ","D","a","t","a"," ","M","o","d","e","l","l","i","n","g",":"," ","D",
              "e","n","o","r","m","a","l","i","s","a","t","i","o","n"," ","a","n","d"," ","D",
              "a","t","a"," ","T","y","p","e","s">>,
    (*  43 *) << >>,
    (*  44 *) <<"I","n"," ","t","r","a","d","i","t","i","o","n","a","l"," ","S","Q","L"," ","(","P","o","s",
              "t","g","r","e","s",","," ","M","y","S","Q","L",")",","," ","n","o","r","m","a",
              "l","i","s","a","t","i","o","n"," ","i","s"," ","t","h","e"," ","s","t","a","n",
              "d","a","r","d"," ","a","p","p","r","o","a","c","h","."," ","I","n">>,
    (*  45 *) <<"B","i","g","Q","u","e","r","y",","," ","*","*","d","e","n","o","r","m","a","l","i","s","a",
              "t","i","o","n","*","*"," ","i","s"," ","o","f","t","e","n"," ","t","h","e"," ",
              "p","a","t","h"," ","t","o"," ","e","f","f","i","c","i","e","n","c","y",".">>,
    (*  46 *) << >>,
    (*  47 *) <<"#","#","#"," ","D","e","n","o","r","m","a","l","i","s","a","t","i","o","n"," ","v","s",".",
              " ","J","o","i","n","s">>,
    (*  48 *) << >>,
    (*  49 *) <<"J","o","i","n","s"," ","i","n"," ","B","i","g","Q","u","e","r","y"," ","r","e","q","u","i",
              "r","e"," ","\"","s","h","u","f","f","l","i","n","g","\"","U+2014","m","o","v",
              "i","n","g"," ","d","a","t","a"," ","b","e","t","w","e","e","n"," ","s","l","o",
              "t","s"," ","t","o"," ","f","i","n","d"," ","m","a","t","c","h","i","n","g">>,
    (*  50 *) <<"k","e","y","s","."," ","T","h","i","s"," ","i","s"," ","c","o","m","p","u","t","e","-","i",
              "n","t","e","n","s","i","v","e"," ","a","n","d"," ","e","x","p","e","n","s","i",
              "v","e","."," ","B","y"," ","p","r","e","-","j","o","i","n","i","n","g"," ","d",
              "a","t","a"," ","i","n","t","o"," ","f","l","a","t"," ","o","r">>,
    (*  51 *) <<"n","e","s","t","e","d"," ","s","t","r","u","c","t","u","r","e","s",","," ","y","o","u"," ",
              "r","e","d","u","c","e"," ","t","h","e"," ","n","e","e","d"," ","f","o","r"," ",
              "s","h","u","f","f","l","e","s",".">>,
    (*  52 *) << >>,
    (*  53 *) <<"#","#","#"," ","C","h","o","o","s","i","n","g"," ","A","p","p","r","o","p","r","i","a","t",
              "e"," ","D","a","t","a"," ","T","y","p","e","s">>,
    (*  54 *) << >>,
    (*  55 *) <<"E","v","e","r","y"," ","b","y","t","e"," ","c","o","u","n","t","s"," ","i","n"," ","a"," ",
              "c","o","l","u","m","n","a","r"," ","s","t","o","r","e","."," ","U","s","i","n",
              "g"," ","U+0060","I","N","T","6","4","U+0060"," ","(","8"," ","b","y","t","e","s",
              ")"," ","i","n","s","t","e","a","d"," ","o","f"," ","a">>,
    (*  56 *) <<"U+0060","S","T","R","I","N","G","U+0060"," ","r","e","p","r","e","s","e","n","t","a","t","i",
              "o","n"," ","c","a","n"," ","s","a","v","e"," ","s","i","g","n","i","f","i","c",
              "a","n","t"," ","c","o","s","t","s"," ","o","v","e","r"," ","b","i","l","l","i",
              "o","n","s"," ","o","f"," ","r","o","w","s",".">>,
    (*  57 *) << >>,
    (*  58 *) <<"*"," ","*","*","S","T","R","I","N","G",":","*","*"," ","2"," ","b","y","t","e","s"," ","+",
              " ","U","T","F","-","8"," ","l","e","n","g","t","h",".">>,
    (*  59 *) <<"*"," ","*","*","N","U","M","E","R","I","C",":","*","*"," ","1","6"," ","b","y","t","e","s",
              " ","(","u","s","e"," ","o","n","l","y"," ","f","o","r"," ","h","i","g","h","-",
              "p","r","e","c","i","s","i","o","n"," ","f","i","n","a","n","c","i","a","l"," ",
              "d","a","t","a",")",".">>,
    (*  60 *) <<"*"," ","*","*","D","A","T","E","/","T","I","M","E","S","T","A","M","P",":","*","*"," ","8",
              " ","b","y","t","e","s",".">>,
    (*  61 *) << >>,
    (*  62 *) <<"U+0060","U+0060","U+0060","s","q","l">>,
    (*  63 *) <<"-","-"," ","E","f","f","i","c","i","e","n","t"," ","T","a","b","l","e"," ","D","e","f","i",
              "n","i","t","i","o","n">>,
    (*  64 *) <<"C","R","E","A","T","E"," ","T","A","B","L","E"," ","a","n","a","l","y","t","i","c","s",".",
              "e","v","e","n","t","s"," ","(">>,
    (*  65 *) <<" "," ","u","s","e","r","_","i","d"," ","I","N","T","6","4",","," "," "," "," "," "," "," ",
              " "," "," "," "," "," ","-","-"," ","8"," ","b","y","t","e","s">>,
    (*  66 *) <<" "," ","e","v","e","n","t","_","t","y","p","e"," ","S","T","R","I","N","G",","," "," "," ",
              " "," "," "," "," "," ","-","-"," ","2"," ","b","y","t","e","s"," ","+"," ","l",
              "e","n","g","t","h">>,
    (*  67 *) <<" "," ","e","v","e","n","t","_","d","a","t","e"," ","D","A","T","E",","," "," "," "," "," ",
              " "," "," "," "," "," ","-","-"," ","8"," ","b","y","t","e","s">>,
    (*  68 *) <<" "," ","m","e","t","a","d","a","t","a"," ","J","S","O","N"," "," "," "," "," "," "," "," ",
              " "," "," "," "," "," ","-","-"," ","U","s","e"," ","s","p","a","r","s","e","l",
              "y"," ","f","o","r"," ","p","e","r","f","o","r","m","a","n","c","e">>,
    (*  69 *) <<")">>,
    (*  70 *) <<"C","L","U","S","T","E","R"," ","B","Y"," ","u","s","e","r","_","i","d",";">>,
    (*  71 *) <<"U+0060","U+0060","U+0060">>,
    (*  72 *) << >>,
    (*  73 *) <<"#","#","#"," ","P","r","i","m","a","r","y"," ","a","n","d"," ","F","o","r","e","i","g","n",
              " ","K","e","y","s">>,
    (*  74 *) << >>,
    (*  75 *) <<"I","n"," ","t","r","a","d","i","t","i","o","n","a","l"," ","d","a","t","a","b","a","s","e",
              "s",","," ","p","r","i","m","a","r","y"," ","k","e","y","s"," ","a","r","e"," ",
              "e","s","s","e","n","t","i","a","l"," ","f","o","r"," ","p","e","r","f","o","r",
              "m","a","n","c","e"," ","(","i","n","d","e","x","i","n","g",")">>,
    (*  76 *) <<"a","n","d"," ","d","a","t","a"," ","i","n","t","e","g","r","i","t","y","."," ","B","i","g",
              "Q","u","e","r","y","'","s"," ","a","p","p","r","o","a","c","h"," ","i","s"," ",
              "d","i","f","f","e","r","e","n","t",":">>,
    (*  77 *) << >>,
    (*  78 *) <<"*"," ","*","*","O","p","t","i","o","n","a","l"," ","a","n","d"," ","N","o","n","-","E","n",
              "f","o","r","c","e","d",":","*","*"," ","P","r","i","m","a","r","y"," ","a","n",
              "d"," ","f","o","r","e","i","g","n"," ","k","e","y","s"," ","a","r","e"," ","o",
              "p","t","i","o","n","a","l","."," ","I","f">>,
    (*  79 *) <<" "," ","d","e","f","i","n","e","d",","," ","t","h","e","y"," ","a","r","e"," ","*","*","n",
              "o","t"," ","e","n","f","o","r","c","e","d","*","*"," ","b","y"," ","B","i","g",
              "Q","u","e","r","y"," ","d","u","r","i","n","g"," ","d","a","t","a"," ","i","n",
              "g","e","s","t","i","o","n","."," ","Y","o","u"," ","a","r","e">>,
    (*  80 *) <<" "," ","r","e","s","p","o","n","s","i","b","l","e"," ","f","o","r"," ","e","n","s","u","r",
              "i","n","g"," ","d","a","t","a"," ","u","n","i","q","u","e","n","e","s","s"," ",
              "a","n","d"," ","r","e","f","e","r","e","n","t","i","a","l"," ","i","n","t","e",
              "g","r","i","t","y",".">>,
    (*  81 *) <<"*"," ","*","*","P","e","r","f","o","r","m","a","n","c","e"," ","O","p","t","i","m","i","s",
              "a","t","i","o","n",":","*","*"," ","W","h","i","l","e"," ","n","o","t"," ","e",
              "n","f","o","r","c","e","d",","," ","d","e","f","i","n","i","n","g"," ","t","h",
              "e","s","e"," ","k","e","y","s"," ","c","a","n">>,
    (*  82 *) <<" "," ","i","m","p","r","o","v","e"," ","q","u","e","r","y"," ","p","e","r","f","o","r","m",
              "a","n","c","e","."," ","T","h","e"," ","q","u","e","r","y"," ","o","p","t","i",
              "m","i","s","e","r"," ","u","s","e","s"," ","t","h","e"," ","c","o","n","s","t",
              "r","a","i","n","t"," ","i","n","f","o","r","m","a","t","i","o","n">>,
    (*  83 *) <<" "," ","t","o"," ","a","p","p","l","y"," ","b","e","t","t","e","r"," ","j","o","i","n"," ",
              "s","t","r","a","t","e","g","i","e","s"," ","(","s","u","c","h"," ","a","s"," ",
              "e","l","i","m","i","n","a","t","i","n","g"," ","u","n","n","e","c","e","s","s",
              "a","r","y"," ","s","h","u","f","f","l","e","s",")"," ","a","n","d">>,
    (*  84 *) <<" "," ","i","m","p","r","o","v","i","n","g"," ","j","o","i","n"," ","o","r","d","e","r","i",
              "n","g",".">>,
    (*  85 *) <<"*"," ","*","*","C","o","s","t"," ","o","f"," ","E","n","f","o","r","c","e","m","e","n","t",
              ":","*","*"," ","B","e","c","a","u","s","e"," ","B","i","g","Q","u","e","r","y",
              " ","i","s"," ","a"," ","d","i","s","t","r","i","b","u","t","e","d"," ","s","y",
              "s","t","e","m",","," ","e","n","f","o","r","c","i","n","g">>,
    (*  86 *) <<" "," ","u","n","i","q","u","e","n","e","s","s"," ","a","t"," ","s","c","a","l","e"," ","w",
              "o","u","l","d"," ","r","e","q","u","i","r","e"," ","s","i","g","n","i","f","i",
              "c","a","n","t"," ","c","r","o","s","s","-","s","l","o","t"," ","c","o","o","r",
              "d","i","n","a","t","i","o","n",","," ","w","h","i","c","h">>,
    (*  87 *) <<" "," ","w","o","u","l","d"," ","s","l","o","w"," ","d","o","w","n"," ","d","a","t","a"," ",
              "l","o","a","d","i","n","g"," ","a","n","d"," ","i","n","c","r","e","a","s","e",
              " ","c","o","s","t","s",".">>,
    (*  88 *) << >>,
    (*  89 *) <<"-","-","-">>,
    (*  90 *) << >>,
    (*  91 *) <<"#","#"," ","3","."," ","S","t","o","r","a","g","e"," ","O","p","t","i","m","i","s","a","t",
              "i","o","n",":"," ","P","a","r","t","i","t","i","o","n","i","n","g"," ","a","n",
              "d"," ","C","l","u","s","t","e","r","i","n","g">>,
    (*  92 *) << >>,
    (*  93 *) <<"T","h","e","s","e"," ","a","r","e"," ","e","f","f","e","c","t","i","v","e"," ","m","e","t",
              "h","o","d","s"," ","f","o","r"," ","r","e","d","u","c","i","n","g"," ","q","u",
              "e","r","y"," ","c","o","s","t","s",".">>,
    (*  94 *) << >>,
    (*  95 *) <<"#","#","#"," ","P","a","r","t","i","t","i","o","n","i","n","g">>,
    (*  96 *) << >>,
    (*  97 *) <<"P","a","r","t","i","t","i","o","n","i","n","g"," ","d","i","v","i","d","e","s"," ","y","o",
              "u","r"," ","t","a","b","l","e"," ","i","n","t","o"," ","s","e","g","m","e","n",
              "t","s"," ","(","u","s","u","a","l","l","y"," ","b","y"," ","d","a","t","e",")",
              "."," ","W","h","e","n"," ","y","o","u"," ","f","i","l","t","e","r">>,
    (*  98 *) <<"b","y"," ","t","h","e"," ","p","a","r","t","i","t","i","o","n"," ","c","o","l","u","m","n",
              ","," ","B","i","g","Q","u","e","r","y"," ","\"","p","r","u","n","e","s","\""," ",
              "t","h","e"," ","p","a","r","t","i","t","i","o","n","s",","," ","i","g","n","o",
              "r","i","n","g"," ","t","h","e"," ","d","a","t","a"," ","i","t">>,
    (*  99 *) <<"d","o","e","s","n","'","t"," ","n","e","e","d",".">>,
    (* 100 *) << >>,
    (* 101 *) <<"U+0060","U+0060","U+0060","s","q","l">>,
    (* 102 *) <<"-","-"," ","P","a","r","t","i","t","i","o","n","i","n","g"," ","b","y"," ","d","a","y"," ",
              "w","i","t","h"," ","a"," ","m","a","n","d","a","t","o","r","y"," ","f","i","l",
              "t","e","r">>,
    (* 103 *) <<"C","R","E","A","T","E"," ","T","A","B","L","E"," ","a","n","a","l","y","t","i","c","s",".",
              "l","o","g","s"," ","(">>,
    (* 104 *) <<" "," ","t","i","m","e","s","t","a","m","p"," ","T","I","M","E","S","T","A","M","P",",">>,
    (* 105 *) <<" "," ","m","e","s","s","a","g","e"," ","S","T","R","I","N","G">>,
    (* 106 *) <<")">>,
    (* 107 *) <<"P","A","R","T","I","T","I","O","N"," ","B","Y"," ","T","I","M","E","S","T","A","M","P","_",
              "T","R","U","N","C","(","t","i","m","e","s","t","a","m","p",","," ","D","A","Y",
              ")">>,
    (* 108 *) <<"O","P","T","I","O","N","S"," ","(">>,
    (* 109 *) <<" "," ","r","e","q","u","i","r","e","_","p","a","r","t","i","t","i","o","n","_","f","i","l",
              "t","e","r"," ","="," ","t","r","u","e">>,
    (* 110 *) <<")",";">>,
    (* 111 *) <<"U+0060","U+0060","U+0060">>,
    (* 112 *) << >>,
    (* 113 *) <<"#","#","#"," ","C","l","u","s","t","e","r","i","n","g">>,
    (* 114 *) << >>,
    (* 115 *) <<"C","l","u","s","t","e","r","i","n","g"," ","s","o","r","t","s"," ","t","h","e"," ","d","a",
              "t","a"," ","w","i","t","h","i","n"," ","p","a","r","t","i","t","i","o","n","s",
              " ","b","a","s","e","d"," ","o","n"," ","u","p"," ","t","o"," ","f","o","u","r",
              " ","c","o","l","u","m","n","s","."," ","T","h","i","s"," ","i","s">>,
    (* 116 *) <<"p","a","r","t","i","c","u","l","a","r","l","y"," ","e","f","f","e","c","t","i","v","e"," ",
              "f","o","r"," ","c","o","l","u","m","n","s"," ","w","i","t","h"," ","h","i","g",
              "h"," ","c","a","r","d","i","n","a","l","i","t","y"," ","(","l","i","k","e"," ",
              "U+0060","u","s","e","r","_","i","d","U+0060"," ","o","r">>,
    (* 117 *) <<"U+0060","c","o","u","n","t","r","y","_","c","o","d","e","U+0060",")",".">>,
    (* 118 *) << >>,
    (* 119 *) <<"*","*","N","o","t","e",":","*","*"," ","T","h","e"," ","o","r","d","e","r"," ","o","f"," ",
              "c","l","u","s","t","e","r","i","n","g"," ","c","o","l","u","m","n","s"," ","m",
              "a","t","t","e","r","s",".">>,
    (* 120 *) <<"c","o","l","u","m","n",","," ","t","h","e","n"," ","t","h","e"," ","s","e","c","o","n","d",
              ","," ","a","n","d"," ","s","o"," ","o","n","."," ","Y","o","u","r"," ","U+0060",
              "W","H","E","R","E","U+0060"," ","c","l","a","u","s","e","s"," ","s","h","o","u",
              "l","d"," ","f","o","l","l","o","w"," ","t","h","i","s">>,
    (* 121 *) <<"o","r","d","e","r"," ","f","o","r"," ","m","a","x","i","m","u","m"," ","e","f","f","e","c",
              "t",".">>,
    (* 122 *) << >>,
    (* 123 *) <<"-","-","-">>,
    (* 124 *) << >>,
    (* 125 *) <<"#","#"," ","4","."," ","A","d","v","a","n","c","e","d"," ","D","a","t","a"," ","S","t","r",
              "u","c","t","u","r","e","s",":"," ","A","r","r","a","y","s"," ","a","n","d"," ",
              "S","t","r","u","c","t","s">>,
    (* 126 *) << >>,
    (* 127 *) <<"B","i","g","Q","u","e","r","y"," ","a","l","l","o","w","s"," ","y","o","u"," ","t","o"," ",
              "s","t","o","r","e"," ","r","e","l","a","t","e","d"," ","d","a","t","a"," ","i",
              "n"," ","a"," ","s","i","n","g","l","e"," ","r","o","w"," ","u","s","i","n","g",
              " ","U+0060","A","R","R","A","Y","U+0060"," ","a","n","d">>,
    (* 128 *) <<"U+0060","S","T","R","U","C","T","U+0060","."," ","T","h","i","s"," ","s","i","g","n","i","f",
              "i","c","a","n","t","l","y"," ","r","e","d","u","c","e","s"," ","r","o","w"," ",
              "c","o","u","n","t","s"," ","a","n","d"," ","a","v","o","i","d","s"," ","e","x",
              "p","e","n","s","i","v","e"," ","j","o","i","n","s",".">>,
    (* 129 *) << >>,
    (* 130 *) <<"#","#","#"," ","T","h","e"," ","\"","G","l","o","b","a","l"," ","I","o","T"," ","S","e","n",
              "s","o","r","\""," ","C","a","s","e"," ","S","t","u","d","y">>,
    (* 131 *) << >>,
    (* 132 *) <<"A","n","a","l","y","s","i","s"," ","o","f"," ","a"," ","h","i","g","h","-","f","r","e","q",
              "u","e","n","c","y"," ","I","o","T"," ","s","e","n","s","o","r"," ","d","a","t",
              "a","s","e","t"," ","i","l","l","u","s","t","r","a","t","e","s"," ","t","h","i",
              "s","."," ","B","y">>,
    (* 133 *) <<"r","e","s","t","r","u","c","t","u","r","i","n","g"," ","a"," ","f","l","a","t"," ","t","a",
              "b","l","e"," ","o","f"," ","*","*","1",".","2"," ","b","i","l","l","i","o","n",
              " ","s","e","n","s","o","r"," ","r","e","a","d","i","n","g","s"," ","(","4","5",
              "0"," ","G","B",")","*","*"," ","i","n","t","o"," ","a">>,
    (* 134 *) <<"n","e","s","t","e","d"," ","s","t","r","u","c","t","u","r","e"," ","w","h","e","r","e"," ",
              "r","e","a","d","i","n","g","s"," ","w","e","r","e"," ","g","r","o","u","p","e",
              "d"," ","i","n","t","o"," ","h","o","u","r","l","y"," ","a","r","r","a","y","s",
              " ","p","e","r"," ","d","e","v","i","c","e",","," ","t","h","e">>,
    (* 135 *) <<"d","a","t","a","s","e","t"," ","w","a","s"," ","r","e","d","u","c","e","d"," ","t","o"," ",
              "*","*","6","0"," ","m","i","l","l","i","o","n"," ","r","o","w","s"," ","(","2",
              "8","0"," ","G","B",")","*","*","U+2014","a"," ","9","5","%"," ","r","e","d","u",
              "c","t","i","o","n"," ","i","n"," ","r","o","w"," ","c","o","u","n","t">>,
    (* 136 *) <<"a","n","d"," ","a"," ","3","8","%"," ","r","e","d","u","c","t","i","o","n"," ","i","n"," ",
              "s","t","o","r","a","g","e"," ","s","i","z","e",".">>,
    (* 137 *) << >>,
    (* 138 *) <<"#","#","#","#"," ","E","x","a","m","p","l","e",":"," ","N","o","r","m","a","l","i","s","e",
              "d"," ","v","s","."," ","N","e","s","t","e","d">>,
    (* 139 *) << >>,
    (* 140 *) <<"U+0060","U+0060","U+0060","s","q","l">>,
    (* 141 *) <<"-","-"," ","N","o","r","m","a","l","i","s","e","d"," ","(","F","l","a","t",")",":"," ","R",
              "e","q","u","i","r","e","s"," ","a"," ","J","O","I","N"," ","a","n","d"," ","s",
              "h","u","f","f","l","e","s"," ","d","a","t","a"," ","f","o","r"," ","e","v","e",
              "r","y"," ","r","e","a","d","i","n","g",".">>,
    (* 142 *) <<"S","E","L","E","C","T"," ">>,
    (* 143 *) <<" "," ","d",".","d","e","v","i","c","e","_","n","a","m","e",","," ">>,
    (* 144 *) <<" "," ","s",".","r","e","a","d","i","n","g"," ">>,
    (* 145 *) <<"F","R","O","M"," ","U+0060","p","r","o","j","e","c","t",".","d","a","t","a","s","e","t",".",
              "s","e","n","s","o","r","s","U+0060"," ","s">>,
    (* 146 *) <<"J","O","I","N"," ","U+0060","p","r","o","j","e","c","t",".","d","a","t","a","s","e","t",".",
              "d","e","v","i","c","e","s","U+0060"," ","d"," ","O","N"," ","s",".","d","e","v",
              "i","c","e","_","i","d"," ","="," ","d",".","d","e","v","i","c","e","_","i","d",
              ";">>,
    (* 147 *) << >>,
    (* 148 *) <<"-","-"," ","N","e","s","t","e","d"," ","(","B","i","g","Q","u","e","r","y",")",":"," ","D",
              "a","t","a"," ","i","s"," ","c","o","-","l","o","c","a","t","e","d","."," ","N",
              "o"," ","J","O","I","N"," ","o","r"," ","s","h","u","f","f","l","e"," ","r","e",
              "q","u","i","r","e","d",".">>,
    (* 149 *) <<"S","E","L","E","C","T"," ">>,
    (* 150 *) <<" "," ","d","e","v","i","c","e","_","n","a","m","e",","," ">>,
    (* 151 *) <<" "," ","r",".","r","e","a","d","i","n","g"," ">>,
    (* 152 *) <<"F","R","O","M"," ","U+0060","p","r","o","j","e","c","t",".","d","a","t","a","s","e","t",".",
              "d","e","v","i","c","e","_","r","e","a","d","i","n","g","s","U+0060",",">>,
    (* 153 *) <<"U","N","N","E","S","T","(","r","e","a","d","i","n","g","s",")"," ","A","S"," ","r",";">>,
    (* 154 *) <<"U+0060","U+0060","U+0060">>,
    (* 155 *) << >>,
    (* 156 *) <<"#","#","#"," ","Q","u","e","r","y","i","n","g"," ","N","e","s","t","e","d"," ","D","a","t",
              "a">>,
    (* 157 *) << >>,
    (* 158 *) <<"U","s","e"," ","t","h","e"," ","U+0060","U","N","N","E","S","T","U+0060"," ","k","e","y","w",
              "o","r","d"," ","t","o"," ","f","l","a","t","t","e","n"," ","a","r","r","a","y",
              "s"," ","b","a","c","k"," ","i","n","t","o"," ","a"," ","r","e","l","a","t","i",
              "o","n","a","l"," ","f","o","r","m","a","t"," ","f","o","r">>,
    (* 159 *) <<"a","n","a","l","y","s","i","s",".">>,
    (* 160 *) << >>,
    (* 161 *) <<"U+0060","U+0060","U+0060","s","q","l">>,
    (* 162 *) <<"-","-"," ","Q","u","e","r","y","i","n","g"," ","a"," ","n","e","s","t","e","d"," ","u","s",
              "e","r"," ","a","c","t","i","v","i","t","y"," ","t","a","b","l","e">>,
    (* 163 *) <<"S","E","L","E","C","T">>,
    (* 164 *) <<" "," ","u","s","e","r","_","i","d",",">>,
    (* 165 *) <<" "," ","s","e","s","s","i","o","n",".","p","a","g","e","_","p","a","t","h",",">>,
    (* 166 *) <<" "," ","s","e","s","s","i","o","n",".","d","u","r","a","t","i","o","n">>,
    (* 167 *) <<"F","R","O","M"," ","U+0060","p","r","o","j","e","c","t",".","d","a","t","a","s","e","t",".",
              "u","s","e","r","_","a","c","t","i","v","i","t","y","U+0060",",">>,
    (* 168 *) <<"U","N","N","E","S","T","(","s","e","s","s","i","o","n","s",")"," ","A","S"," ","s","e","s",
              "s","i","o","n">>,
    (* 169 *) <<"W","H","E","R","E"," ","s","e","s","s","i","o","n",".","d","a","t","e"," ","="," ","'","2",
              "0","2","4","-","0","1","-","0","1","'",";">>,
    (* 170 *) <<"U+0060","U+0060","U+0060">>,
    (* 171 *) << >>,
    (* 172 *) <<"-","-","-">>,
    (* 173 *) << >>,
    (* 174 *) <<"#","#"," ","5","."," ","M","o","d","e","r","n"," ","S","e","a","r","c","h"," ","C","a","p",
              "a","b","i","l","i","t","i","e","s",":"," ","S","e","a","r","c","h"," ","I","n",
              "d","e","x","e","s">>,
    (* 175 *) << >>,
    (* 176 *) <<"F","o","r"," ","l","o","g","s"," ","o","r"," ","t","e","x","t","-","h","e","a","v","y"," ",
              "d","a","t","a",","," ","s","t","a","n","d","a","r","d"," ","U+0060","L","I","K",
              "E"," ","'","%","t","e","r","m","%","'","U+0060"," ","f","i","l","t","e","r","s",
              " ","a","r","e"," ","s","l","o","w"," ","a","n","d">>,
    (* 177 *) <<"e","x","p","e","n","s","i","v","e","."," ","B","i","g","Q","u","e","r","y","'","s"," ","*",
              "*","S","e","a","r","c","h"," ","I","n","d","e","x","e","s","*","*"," ","a","l",
              "l","o","w"," ","f","o","r"," ","e","f","f","i","c","i","e","n","t"," ","p","a",
              "t","t","e","r","n">>,
    (* 178 *) <<"m","a","t","c","h","i","n","g",".">>,
    (* 179 *) << >>,
    (* 180 *) <<"U+0060","U+0060","U+0060","s","q","l">>,
    (* 181 *) <<"-","-"," ","C","r","e","a","t","i","n","g"," ","a"," ","S","e","a","r","c","h"," ","I","n",
              "d","e","x">>,
    (* 182 *) <<"C","R","E","A","T","E"," ","S","E","A","R","C","H"," ","I","N","D","E","X"," ","i","d","x",
              "_","l","o","g","s">>,
    (* 183 *) <<"O","N"," ","a","n","a","l","y","t","i","c","s",".","s","e","r","v","e","r","_","l","o","g",
              "s","(","A","L","L"," ","C","O","L","U","M","N","S",")",";">>,
    (* 184 *) << >>,
    (* 185 *) <<"-","-"," ","U","s","i","n","g"," ","t","h","e"," ","S","E","A","R","C","H"," ","f","u","n",
              "c","t","i","o","n">>,
    (* 186 *) <<"S","E","L","E","C","T"," ","*">>,
    (* 187 *) <<"F","R","O","M"," ","a","n","a","l","y","t","i","c","s",".","s","e","r","v","e","r","_","l",
              "o","g","s">>,
    (* 188 *) <<"W","H","E","R","E"," ","S","E","A","R","C","H","(","s","e","r","v","e","r","_","l","o","g",
              "s",","," ","'","e","r","r","o","r"," ","\"","c","r","i","t","i","c","a","l"," ",
              "f","a","i","l","u","r","e","\"","'",")",";">>,
    (* 189 *) <<"U+0060","U+0060","U+0060">>,
    (* 190 *) << >>,
    (* 191 *) <<"-","-","-">>,
    (* 192 *) << >>,
    (* 193 *) <<"#","#"," ","6","."," ","A","d","v","a","n","c","e","d"," ","S","Q","L"," ","T","e","c","h",
              "n","i","q","u","e","s",":"," ","W","i","n","d","o","w"," ","F","u","n","c","t",
              "i","o","n","s">>,
    (* 194 *) << >>,
    (* 195 *) <<"W","i","n","d","o","w"," ","f","u","n","c","t","i","o","n","s"," ","a","l","l","o","w"," ",
              "y","o","u"," ","t","o"," ","p","e","r","f","o","r","m"," ","c","a","l","c","u",
              "l","a","t","i","o","n","s"," ","a","c","r","o","s","s"," ","a"," ","s","e","t",
              " ","o","f"," ","r","o","w","s"," ","r","e","l","a","t","e","d">>,
    (* 196 *) <<"t","o"," ","t","h","e"," ","c","u","r","r","e","n","t"," ","r","o","w",","," ","w","i","t",
              "h","o","u","t"," ","c","o","l","l","a","p","s","i","n","g"," ","t","h","e","m",
              " ","i","n","t","o"," ","a"," ","s","i","n","g","l","e"," ","o","u","t","p","u",
              "t"," ","r","o","w",".">>,
    (* 197 *) << >>,
    (* 198 *) <<"#","#","#"," ","K","e","y"," ","W","i","n","d","o","w"," ","F","u","n","c","t","i","o","n",
              "s">>,
    (* 199 *) << >>,
    (* 200 *) <<"*"," ","*","*","R","a","n","k","i","n","g",":","*","*"," ","U+0060","R","O","W","_","N","U",
              "M","B","E","R","(",")","U+0060",","," ","U+0060","R","A","N","K","(",")",
              "U+0060",","," ","U+0060","D","E","N","S","E","_","R","A","N","K","(",")",
              "U+0060",".">>,
    (* 201 *) <<"*"," ","*","*","A","n","a","l","y","t","i","c","a","l",":","*","*"," ","U+0060","L","A","G",
              "(",")","U+0060",","," ","U+0060","L","E","A","D","(",")","U+0060"," ","(","c",
              "o","m","p","a","r","i","n","g"," ","t","o"," ","p","r","e","v","i","o","u","s",
              "/","n","e","x","t"," ","r","o","w","s",")",".">>,
    (* 202 *) <<"*"," ","*","*","A","g","g","r","e","g","a","t","i","o","n",":","*","*"," ","U+0060","S","U",
              "M","(",")"," ","O","V","E","R","(",")","U+0060",","," ","U+0060","A","V","G","(",
              ")"," ","O","V","E","R","(",")","U+0060",".">>,
    (* 203 *) << >>,
    (* 204 *) <<"U+0060","U+0060","U+0060","s","q","l">>,
    (* 205 *) <<"-","-"," ","C","a","l","c","u","l","a","t","i","n","g"," ","a"," ","7","-","d","a","y"," ",
              "m","o","v","i","n","g"," ","a","v","e","r","a","g","e"," ","o","f"," ","r","e",
              "v","e","n","u","e">>,
    (* 206 *) <<"S","E","L","E","C","T">>,
    (* 207 *) <<" "," ","d","a","t","e",",">>,
    (* 208 *) <<" "," ","r","e","v","e","n","u","e",",">>,
    (* 209 *) <<" "," ","A","V","G","(","r","e","v","e","n","u","e",")"," ","O","V","E","R"," ","(">>,
    (* 210 *) <<" "," "," "," ","O","R","D","E","R"," ","B","Y"," ","d","a","t","e">>,
    (* 211 *) <<" "," "," "," ","R","O","W","S"," ","B","E","T","W","E","E","N"," ","6"," ","P","R","E","C",
              "E","D","I","N","G"," ","A","N","D"," ","C","U","R","R","E","N","T"," ","R","O",
              "W">>,
    (* 212 *) <<" "," ",")"," ","A","S"," ","m","o","v","i","n","g","_","a","v","g","_","7","d">>,
    (* 213 *) <<"F","R","O","M"," ","s","a","l","e","s","_","t","a","b","l","e",";">>,
    (* 214 *) <<"U+0060","U+0060","U+0060">>,
    (* 215 *) << >>,
    (* 216 *) <<"#","#","#"," ","O","p","t","i","m","i","s","a","t","i","o","n",":"," ","U+0060","E","X","I",
              "S","T","S","U+0060"," ","a","n","d"," ","U+0060","I","N","U+0060"," ","f","o",
              "r"," ","S","e","m","i","-","J","o","i","n","s">>,
    (* 217 *) << >>,
    (* 218 *) <<"I","n"," ","B","i","g","Q","u","e","r","y",","," ","u","s","i","n","g"," ","U+0060","E","X",
              "I","S","T","S","U+0060"," ","o","r"," ","U+0060","I","N","U+0060"," ","w","i",
              "t","h"," ","a"," ","s","u","b","q","u","e","r","y"," ","i","s"," ","a","n"," ",
              "o","p","t","i","m","i","s","a","t","i","o","n"," ","t","h","a","t">>,
    (* 219 *) <<"t","h","e"," ","e","n","g","i","n","e"," ","t","r","a","n","s","l","a","t","e","s"," ","i",
              "n","t","o"," ","a"," ","*","*","S","e","m","i","-","J","o","i","n","*","*"," ",
              "o","r"," ","*","*","A","n","t","i","-","J","o","i","n","*","*",".">>,
    (* 220 *) << >>,
    (* 221 *) <<"*"," ","*","*","E","f","f","i","c","i","e","n","c","y",":","*","*"," ","A"," ","s","t","a",
              "n","d","a","r","d"," ","U+0060","J","O","I","N","U+0060"," ","c","a","n"," ","p",
              "r","o","d","u","c","e"," ","d","u","p","l","i","c","a","t","e"," ","r","o","w",
              "s"," ","i","f"," ","t","h","e"," ","j","o","i","n"," ","k","e","y"," ","i","s">>,
    (* 222 *) <<" "," ","n","o","t"," ","u","n","i","q","u","e",","," ","r","e","q","u","i","r","i","n","g",
              " ","a"," ","U+0060","D","I","S","T","I","N","C","T","U+0060"," ","o","p","e","r",
              "a","t","i","o","n","."," ","U+0060","E","X","I","S","T","S","U+0060"," ","a","n",
              "d"," ","U+0060","I","N","U+0060"," ","s","t","o","p"," ","p","r","o","c","e","s",
              "s","i","n","g">>,
    (* 223 *) <<" "," ","a"," ","m","a","t","c","h"," ","a","s"," ","s","o","o","n"," ","a","s"," ","t","h",
              "e"," ","f","i","r","s","t"," ","o","n","e"," ","i","s"," ","f","o","u","n","d",
              ","," ","r","e","d","u","c","i","n","g"," ","*","*","S","l","o","t"," ","T","i",
              "m","e","*","*"," ","a","n","d">>,
    (* 224 *) <<" "," ","*","*","B","y","t","e","s"," ","S","h","u","f","f","l","e","d","*","*",".">>,
    (* 225 *) <<"*"," ","*","*","P","e","r","f","o","r","m","a","n","c","e",":","*","*"," ","U","s","e"," ",
              "U+0060","E","X","I","S","T","S","U+0060"," ","f","o","r"," ","c","o","r","r","e",
              "l","a","t","e","d"," ","s","u","b","q","u","e","r","i","e","s"," ","a","n","d",
              " ","U+0060","I","N","U+0060"," ","f","o","r">>,
    (* 226 *) <<" "," ","u","n","c","o","r","r","e","l","a","t","e","d"," ","s","u","b","q","u","e","r","i",
              "e","s"," ","o","r"," ","s","t","a","t","i","c"," ","l","i","s","t","s",".">>,
    (* 227 *) <<"*"," ","*","*","A","n","t","i","-","J","o","i","n","s",":","*","*"," ","U+0060","N","O","T",
              " ","E","X","I","S","T","S","U+0060"," ","i","s"," ","m","o","r","e"," ","r","e",
              "l","i","a","b","l","e"," ","f","o","r"," ","a","n","t","i","-","j","o","i","n",
              "s"," ","b","e","c","a","u","s","e"," ","i","t"," ","h","a","n","d","l","e","s">>,
    (* 228 *) <<" "," ","U+0060","N","U","L","L","U+0060"," ","v","a","l","u","e","s"," ","d","i","f","f","e",
              "r","e","n","t","l","y"," ","t","h","a","n"," ","U+0060","N","O","T"," ","I","N",
              "U+0060","."," ","I","f"," ","a"," ","U+0060","N","O","T"," ","I","N","U+0060",
              " ","s","u","b","q","u","e","r","y"," ","r","e","t","u","r","n","s"," ","a">>,
    (* 229 *) <<" "," ","U+0060","N","U","L","L","U+0060",","," ","t","h","e"," ","q","u","e","r","y"," ","w",
              "i","l","l"," ","r","e","t","u","r","n"," ","z","e","r","o"," ","r","e","s","u",
              "l","t","s",".">>,
    (* 230 *) << >>,
    (* 231 *) <<"#","#","#","#"," ","E","x","a","m","p","l","e",":"," ","S","e","m","i","-","J","o","i","n",
              " ","v","s","."," ","I","n","n","e","r"," ","J","o","i","n">>,
    (* 232 *) << >>,
    (* 233 *) <<"U+0060","U+0060","U+0060","s","q","l">>,
    (* 234 *) <<"-","-"," ","S","t","a","n","d","a","r","d"," ","J","o","i","n",":"," ","M","i","g","h","t",
              " ","p","r","o","d","u","c","e"," ","d","u","p","l","i","c","a","t","e"," ","r",
              "o","w","s"," ","i","f"," ","a"," ","u","s","e","r"," ","h","a","s"," ","m","u",
              "l","t","i","p","l","e"," ","o","r","d","e","r","s",",">>,
    (* 235 *) <<"-","-"," ","r","e","q","u","i","r","i","n","g"," ","a","n"," ","e","x","p","e","n","s","i",
              "v","e"," ","D","I","S","T","I","N","C","T",".">>,
    (* 236 *) <<"S","E","L","E","C","T"," ","D","I","S","T","I","N","C","T"," ","u",".","u","s","e","r","_",
              "i","d",","," ","u",".","n","a","m","e">>,
    (* 237 *) <<"F","R","O","M"," ","U+0060","p","r","o","j","e","c","t",".","d","a","t","a","s","e","t",".",
              "u","s","e","r","s","U+0060"," ","u">>,
    (* 238 *) <<"J","O","I","N"," ","U+0060","p","r","o","j","e","c","t",".","d","a","t","a","s","e","t",".",
              "o","r","d","e","r","s","U+0060"," ","o"," ","O","N"," ","u",".","u","s","e","r",
              "_","i","d"," ","="," ","o",".","u","s","e","r","_","i","d",";">>,
    (* 239 *) << >>,
    (* 240 *) <<"-","-"," ","O","p","t","i","m","i","s","e","d"," ","w","i","t","h"," ","E","X","I","S","T",
              "S"," ","(","S","e","m","i","-","J","o","i","n",")",":"," ","S","t","o","p","s",
              " ","a","s"," ","s","o","o","n"," ","a","s"," ","t","h","e"," ","f","i","r","s",
              "t"," ","o","r","d","e","r"," ","i","s"," ","f","o","u","n","d",".">>,
    (* 241 *) <<"-","-"," ","M","o","r","e"," ","e","f","f","i","c","i","e","n","t"," ","f","o","r"," ","l",
              "a","r","g","e"," ","d","a","t","a","s","e","t","s",".">>,
    (* 242 *) <<"S","E","L","E","C","T"," ","u",".","u","s","e","r","_","i","d",","," ","u",".","n","a","m",
              "e">>,
    (* 243 *) <<"F","R","O","M"," ","U+0060","p","r","o","j","e","c","t",".","d","a","t","a","s","e","t",".",
              "u","s","e","r","s","U+0060"," ","u">>,
    (* 244 *) <<"W","H","E","R","E"," ","E","X","I","S","T","S"," ","(">>,
    (* 245 *) <<" "," ","S","E","L","E","C","T"," ","1"," ","F","R","O","M"," ","U+0060","p","r","o","j","e",
              "c","t",".","d","a","t","a","s","e","t",".","o","r","d","e","r","s","U+0060"," ",
              "o"," ","W","H","E","R","E"," ","o",".","u","s","e","r","_","i","d"," ","="," ",
              "u",".","u","s","e","r","_","i","d">>,
    (* 246 *) <<")",";">>,
    (* 247 *) << >>,
    (* 248 *) <<"-","-"," ","O","p","t","i","m","i","s","e","d"," ","w","i","t","h"," ","I","N"," ","(","U",
              "n","c","o","r","r","e","l","a","t","e","d",")",":"," ","B","e","s","t"," ","f",
              "o","r"," ","s","t","a","t","i","c"," ","l","i","s","t","s"," ","o","r"," ","i",
              "n","d","e","p","e","n","d","e","n","t"," ","s","u","b","q","u","e","r","i","e",
              "s",".">>,
    (* 249 *) <<"S","E","L","E","C","T"," ","u","s","e","r","_","i","d",","," ","n","a","m","e">>,
    (* 250 *) <<"F","R","O","M"," ","U+0060","p","r","o","j","e","c","t",".","d","a","t","a","s","e","t",".",
              "u","s","e","r","s","U+0060">>,
    (* 251 *) <<"W","H","E","R","E"," ","u","s","e","r","_","i","d"," ","I","N"," ","(","S","E","L","E","C",
              "T"," ","u","s","e","r","_","i","d"," ","F","R","O","M"," ","U+0060","p","r","o",
              "j","e","c","t",".","d","a","t","a","s","e","t",".","o","r","d","e","r","s",
              "U+0060",")",";">>,
    (* 252 *) <<"U+0060","U+0060","U+0060">>,
    (* 253 *) << >>,
    (* 254 *) <<"-","-","-">>,
    (* 255 *) << >>,
    (* 256 *) <<"#","#"," ","7","."," ","P","r","a","c","t","i","c","a","l"," ","P","e","r","f","o","r","m",
              "a","n","c","e"," ","T","u","n","i","n","g",":"," ","T","h","e"," ","D","e","v",
              "e","l","o","p","e","r","'","s"," ","W","o","r","k","f","l","o","w">>,
    (* 257 *) << >>,
    (* 258 *) <<"1","."," ","*","*","F","i","l","t","e","r"," ","E","a","r","l","y",":","*","*"," ","A","p",
              "p","l","y"," ","U+0060","W","H","E","R","E","U+0060"," ","c","l","a","u","s","e",
              "s"," ","a","s"," ","c","l","o","s","e"," ","t","o"," ","t","h","e"," ","s","o",
              "u","r","c","e"," ","a","s"," ","p","o","s","s","i","b","l","e",".">>,
    (* 259 *) <<"2","."," ","*","*","S","e","l","e","c","t"," ","O","n","l","y"," ","N","e","e","d","e","d",
              " ","C","o","l","u","m","n","s",":","*","*"," ","A","v","o","i","d"," ","U+0060",
              "S","E","L","E","C","T"," ","*","U+0060","."," ","E","v","e","r","y"," ","e","x",
              "t","r","a"," ","c","o","l","u","m","n"," ","a","d","d","s"," ","t","o">>,
    (* 260 *) <<" "," "," ","t","h","e"," ","b","y","t","e","s"," ","s","c","a","n","n","e","d",".">>,
    (* 261 *) <<"3","."," ","*","*","A","g","g","r","e","g","a","t","e"," ","L","a","t","e",":","*","*"," ",
              "J","o","i","n"," ","s","m","a","l","l"," ","t","a","b","l","e","s"," ","f","i",
              "r","s","t",","," ","t","h","e","n"," ","a","g","g","r","e","g","a","t","e",".">>,
    (* 262 *) <<"4","."," ","*","*","U","s","e"," ","C","T","E","s"," ","f","o","r"," ","C","l","a","r","i",
              "t","y",":","*","*"," ","C","o","m","m","o","n"," ","T","a","b","l","e"," ","E",
              "x","p","r","e","s","s","i","o","n","s"," ","(","C","T","E","s",")"," ","m","a",
              "k","e"," ","y","o","u","r"," ","c","o","d","e"," ","m","o","r","e">>,
    (* 263 *) <<" "," "," ","r","e","a","d","a","b","l","e",","," ","b","u","t"," ","r","e","m","e","m","b",
              "e","r"," ","t","h","a","t"," ","B","i","g","Q","u","e","r","y"," ","d","o","e",
              "s"," ","n","o","t"," ","\"","m","a","t","e","r","i","a","l","i","s","e","\""," ",
              "t","h","e","m","U+2014","u","s","i","n","g"," ","t","h","e">>,
    (* 264 *) <<" "," "," ","s","a","m","e"," ","C","T","E"," ","m","u","l","t","i","p","l","e"," ","t","i",
              "m","e","s"," ","w","i","l","l"," ","r","e","s","u","l","t"," ","i","n"," ","m",
              "u","l","t","i","p","l","e"," ","s","c","a","n","s","."," ","U","s","e"," ","t",
              "e","m","p","o","r","a","r","y"," ","t","a","b","l","e","s">>,
    (* 265 *) <<" "," "," ","f","o","r"," ","h","e","a","v","y"," ","i","n","t","e","r","m","e","d","i","a",
              "t","e"," ","r","e","s","u","l","t","s",".">>,
    (* 266 *) << >>,
    (* 267 *) <<"-","-","-">>,
    (* 268 *) << >>,
    (* 269 *) <<"#","#"," ","8","."," ","A","n","a","l","y","s","i","n","g"," ","t","h","e"," ","E","x","e",
              "c","u","t","i","o","n"," ","G","r","a","p","h",":"," ","I","d","e","n","t","i",
              "f","y","i","n","g"," ","B","o","t","t","l","e","n","e","c","k","s">>,
    (* 270 *) << >>,
    (* 271 *) <<"T","h","e"," ","e","x","e","c","u","t","i","o","n"," ","g","r","a","p","h"," ","p","r","o",
              "v","i","d","e","s"," ","a"," ","d","e","t","a","i","l","e","d"," ","v","i","e",
              "w"," ","o","f"," ","h","o","w"," ","y","o","u","r"," ","q","u","e","r","y"," ",
              "i","s"," ","p","r","o","c","e","s","s","e","d","."," ","I","t">>,
    (* 272 *) <<"s","h","o","w","s"," ","h","o","w"," ","t","h","e"," ","*","*","D","r","e","m","e","l","*",
              "*"," ","e","n","g","i","n","e"," ","b","r","e","a","k","s"," ","y","o","u","r",
              " ","S","Q","L"," ","i","n","t","o"," ","m","u","l","t","i","p","l","e"," ","s",
              "t","a","g","e","s",".">>,
    (* 273 *) << >>,
    (* 274 *) <<"#","#","#"," ","C","o","m","p","a","r","i","s","o","n"," ","o","f"," ","E","x","e","c","u",
              "t","i","o","n"," ","M","e","t","r","i","c","s">>,
    (* 275 *) << >>,
    (* 276 *) <<"*"," ","*","*","S","l","o","t"," ","T","i","m","e",":","*","*"," ","T","h","e"," ","t","o",
              "t","a","l"," ","c","o","m","p","u","t","e"," ","r","e","s","o","u","r","c","e",
              "s"," ","c","o","n","s","u","m","e","d","."," ","H","i","g","h"," ","s","l","o",
              "t"," ","t","i","m","e"," ","r","e","l","a","t","i","v","e"," ","t","o">>,
    (* 277 *) <<" "," ","e","x","e","c","u","t","i","o","n"," ","t","i","m","e"," ","i","n","d","i","c","a",
              "t","e","s"," ","h","i","g","h"," ","p","a","r","a","l","l","e","l","i","s","m",
              "."," ","E","x","t","r","e","m","e","l","y"," ","h","i","g","h"," ","s","l","o",
              "t"," ","t","i","m","e"," ","w","i","t","h"," ","s","l","o","w">>,
    (* 278 *) <<" "," ","p","e","r","f","o","r","m","a","n","c","e"," ","c","a","n"," ","i","n","d","i","c",
              "a","t","e"," ","i","n","e","f","f","i","c","i","e","n","t"," ","o","p","e","r",
              "a","t","i","o","n","s"," ","l","i","k","e"," ","c","r","o","s","s","-","j","o",
              "i","n","s",".">>,
    (* 279 *) <<"*"," ","*","*","W","a","i","t"," ","T","i","m","e"," ","(","m","s",")",":","*","*"," ","T",
              "h","e"," ","t","i","m","e"," ","a"," ","s","t","a","g","e"," ","w","a","i","t",
              "e","d"," ","f","o","r"," ","a","n"," ","a","v","a","i","l","a","b","l","e"," ",
              "s","l","o","t","."," ","H","i","g","h"," ","w","a","i","t">>,
    (* 280 *) <<" "," ","t","i","m","e","s"," ","i","n","d","i","c","a","t","e"," ","t","h","a","t"," ","t",
              "h","e"," ","p","r","o","j","e","c","t"," ","h","a","s"," ","r","e","a","c","h",
              "e","d"," ","i","t","s"," ","s","l","o","t"," ","l","i","m","i","t",".">>,
    (* 281 *) <<"*"," ","*","*","B","y","t","e","s"," ","S","h","u","f","f","l","e","d",":","*","*"," ","T",
              "h","e"," ","a","m","o","u","n","t"," ","o","f"," ","d","a","t","a"," ","m","o",
              "v","e","d"," ","b","e","t","w","e","e","n"," ","s","t","a","g","e","s","."," ",
              "L","a","r","g","e"," ","s","h","u","f","f","l","e">>,
    (* 282 *) <<" "," ","v","o","l","u","m","e","s"," ","a","r","e"," ","a"," ","b","o","t","t","l","e","n",
              "e","c","k"," ","a","n","d"," ","c","a","n"," ","o","f","t","e","n"," ","b","e",
              " ","r","e","d","u","c","e","d"," ","t","h","r","o","u","g","h"," ","c","l","u",
              "s","t","e","r","i","n","g"," ","o","r"," ","b","e","t","t","e","r">>,
    (* 283 *) <<" "," ","d","a","t","a"," ","m","o","d","e","l","l","i","n","g",".">>,
    (* 284 *) <<"*"," ","*","*","C","o","m","p","u","t","e"," ","T","i","m","e"," ","(","A","v","g"," ","v",
              "s"," ","M","a","x",")",":","*","*"," ","A"," ","l","a","r","g","e"," ","d","i",
              "f","f","e","r","e","n","c","e"," ","b","e","t","w","e","e","n"," ","A","v","e",
              "r","a","g","e"," ","a","n","d"," ","M","a","x","i","m","u","m">>,
    (* 285 *) <<" "," ","c","o","m","p","u","t","e"," ","t","i","m","e"," ","i","n"," ","a"," ","s","t","a",
              "g","e"," ","i","n","d","i","c","a","t","e","s"," ","*","*","D","a","t","a"," ",
              "S","k","e","w","*","*",","," ","w","h","e","r","e"," ","a"," ","s","m","a","l",
              "l"," ","n","u","m","b","e","r"," ","o","f"," ","s","l","o","t","s">>,
    (* 286 *) <<" "," ","p","r","o","c","e","s","s"," ","m","o","r","e"," ","d","a","t","a"," ","t","h","a",
              "n"," ","o","t","h","e","r","s",".">>,
    (* 287 *) << >>,
    (* 288 *) <<"#","#","#"," ","J","o","i","n"," ","P","a","t","t","e","r","n","s"," ","i","n"," ","t","h",
              "e"," ","G","r","a","p","h">>,
    (* 289 *) << >>,
    (* 290 *) <<"B","i","g","Q","u","e","r","y"," ","u","s","e","s"," ","t","w","o"," ","s","t","r","a","t",
              "e","g","i","e","s"," ","f","o","r"," ","j","o","i","n","s",":">>,
    (* 291 *) << >>,
    (* 292 *) <<"1","."," ","*","*","B","r","o","a","d","c","a","s","t"," ","J","o","i","n",":","*","*"," ",
              "F","o","r"," ","j","o","i","n","s"," ","w","i","t","h"," ","s","m","a","l","l",
              " ","t","a","b","l","e","s"," ","(","u","s","u","a","l","l","y"," ","<"," ","1",
              "0","M","B",")",","," ","B","i","g","Q","u","e","r","y">>,
    (* 293 *) <<" "," "," ","s","e","n","d","s"," ","t","h","e"," ","s","m","a","l","l"," ","t","a","b","l",
              "e"," ","t","o"," ","e","v","e","r","y"," ","s","l","o","t"," ","p","r","o","c",
              "e","s","s","i","n","g"," ","t","h","e"," ","l","a","r","g","e"," ","t","a","b",
              "l","e","."," ","T","h","i","s"," ","a","v","o","i","d","s">>,
    (* 294 *) <<" "," "," ","a"," ","s","h","u","f","f","l","e",".">>,
    (* 295 *) <<"2","."," ","*","*","H","a","s","h"," ","J","o","i","n",":","*","*"," ","F","o","r"," ","j",
              "o","i","n","s"," ","b","e","t","w","e","e","n"," ","l","a","r","g","e"," ","t",
              "a","b","l","e","s",","," ","B","i","g","Q","u","e","r","y"," ","s","h","u","f",
              "f","l","e","s"," ","b","o","t","h"," ","t","a","b","l","e","s">>,
    (* 296 *) <<" "," "," ","b","a","s","e","d"," ","o","n"," ","t","h","e"," ","j","o","i","n"," ","k","e",
              "y",".">>,
    (* 297 *) << >>,
    (* 298 *) <<"#","#","#"," ","C","o","m","m","o","n"," ","B","o","t","t","l","e","n","e","c","k","s"," ",
              "a","n","d"," ","S","o","l","u","t","i","o","n","s">>,
    (* 299 *) << >>,
    (* 300 *) <<"<","!","-","-"," ","m","a","r","k","d","o","w","n","l","i","n","t","-","d","i","s","a","b",
              "l","e"," ","M","D","0","1","3"," ","-","-",">">>,
    (* 301 *) <<"|"," ","S","y","m","p","t","o","m"," ","|"," ","P","r","o","b","a","b","l","e"," ","C","a",
              "u","s","e"," ","|"," ","S","o","l","u","t","i","o","n"," ","|">>,
    (* 302 *) <<"|"," ",":","-","-","-"," ","|"," ",":","-","-","-"," ","|"," ",":","-","-","-"," ","|">>,
    (* 303 *) <<"|"," ","*","*","H","i","g","h"," ","S","l","o","t"," ","T","i","m","e","*","*"," ","|"," ",
              "C","o","m","p","l","e","x"," ","U+0060","R","E","G","E","X","P","U+0060",","," ",
              "U","D","F","s",","," ","o","r"," ","l","a","r","g","e"," ","c","r","o","s","s",
              "-","j","o","i","n","s","."," ","|"," ","S","i","m","p","l","i","f","y"," ","l",
              "o","g","i","c",";"," ","u","s","e"," ","U+0060","S","E","A","R","C","H","U+0060",
              " ","f","o","r"," ","t","e","x","t",";"," ","e","n","s","u","r","e"," ","j","o",
              "i","n"," ","k","e","y","s"," ","a","r","e"," ","e","f","f","i","c","i","e","n",
              "t","."," ","|">>,
    (* 304 *) <<"|"," ","*","*","H","i","g","h"," ","W","a","i","t"," ","T","i","m","e","*","*"," ","|"," ",
              "S","l","o","t"," ","c","o","n","t","e","n","t","i","o","n"," ","o","r"," ","h",
              "i","t","t","i","n","g"," ","p","r","o","j","e","c","t"," ","l","i","m","i","t",
              "s","."," ","|"," ","S","w","i","t","c","h"," ","t","o"," ","C","a","p","a","c",
              "i","t","y"," ","p","r","i","c","i","n","g"," ","(","R","e","s","e","r","v","a",
              "t","i","o","n","s",")"," ","o","r"," ","o","p","t","i","m","i","s","e"," ","q",
              "u","e","r","y"," ","t","o"," ","u","s","e"," ","f","e","w","e","r"," ","s","l",
              "o","t","s","."," ","|">>,
    (* 305 *) <<"|"," ","*","*","H","i","g","h"," ","B","y","t","e","s"," ","S","h","u","f","f","l","e","d",
              "*","*"," ","|"," ","J","o","i","n","i","n","g"," ","l","a","r","g","e"," ","t",
              "a","b","l","e","s"," ","o","n"," ","n","o","n","-","c","l","u","s","t","e","r",
              "e","d"," ","c","o","l","u","m","n","s","."," ","|"," ","C","l","u","s","t","e",
              "r"," ","b","o","t","h"," ","t","a","b","l","e","s"," ","o","n"," ","t","h","e",
              " ","j","o","i","n"," ","k","e","y","s",";"," ","u","s","e"," ","n","e","s","t",
              "e","d","/","r","e","p","e","a","t","e","d"," ","f","i","e","l","d","s"," ","t",
              "o"," ","a","v","o","i","d"," ","j","o","i","n","s","."," ","|">>,
    (* 306 *) <<"|"," ","*","*","D","a","t","a"," ","S","k","e","w","*","*"," ","|"," ","J","o","i","n"," ",
              "k","e","y","s"," ","a","r","e"," ","u","n","e","v","e","n","l","y"," ","d","i",
              "s","t","r","i","b","u","t","e","d"," ","(","e",".","g",".",","," ","m","a","n",
              "y"," ","N","U","L","L","s",")","."," ","|"," ","F","i","l","t","e","r"," ","o",
              "u","t"," ","N","U","L","L","s"," ","b","e","f","o","r","e"," ","j","o","i","n",
              "i","n","g",";"," ","d","i","s","t","r","i","b","u","t","e"," ","f","r","e","q",
              "u","e","n","t","l","y"," ","o","c","c","u","r","r","i","n","g"," ","k","e","y",
              "s"," ","u","s","i","n","g"," ","a"," ","\"","s","a","l","t","i","n","g","\""," ",
              "t","e","c","h","n","i","q","u","e","."," ","|">>,
    (* 307 *) <<"|"," ","*","*","E","x","p","l","o","d","i","n","g"," ","J","o","i","n","s","*","*"," ","|",
              " ","*","*","L","o","w"," ","C","a","r","d","i","n","a","l","i","t","y","*","*",
              " ","o","n"," ","j","o","i","n"," ","k","e","y","s"," ","(","M","a","n","y","-",
              "t","o","-","M","a","n","y",")","."," ","|"," ","C","h","e","c","k"," ","j","o",
              "i","n"," ","l","o","g","i","c",";"," ","e","n","s","u","r","e"," ","y","o","u",
              " ","a","r","e","n","'","t"," ","c","r","e","a","t","i","n","g"," ","a"," ","C",
              "a","r","t","e","s","i","a","n"," ","p","r","o","d","u","c","t"," ","i","n","a",
              "d","v","e","r","t","e","n","t","l","y","."," ","|">>,
    (* 308 *) <<"<","!","-","-"," ","m","a","r","k","d","o","w","n","l","i","n","t","-","e","n","a","b","l",
              "e"," ","M","D","0","1","3"," ","-","-",">">>,
    (* 309 *) << >>,
    (* 310 *) <<"-","-","-">>,
    (* 311 *) << >>,
    (* 312 *) <<"#","#"," ","F","i","n","a","l"," ","T","h","o","u","g","h","t","s">>,
    (* 313 *) << >>,
    (* 314 *) <<"E","f","f","i","c","i","e","n","c","y"," ","i","n"," ","B","i","g","Q","u","e","r","y"," ",
              "i","n","v","o","l","v","e","s"," ","u","n","d","e","r","s","t","a","n","d","i",
              "n","g"," ","t","h","e"," ","s","e","p","a","r","a","t","i","o","n"," ","o","f",
              " ","s","t","o","r","a","g","e"," ","a","n","d">>,
    (* 315 *) <<"c","o","m","p","u","t","e","."," ","B","y"," ","u","s","i","n","g"," ","d","e","n","o","r",
              "m","a","l","i","s","a","t","i","o","n",","," ","p","a","r","t","i","t","i","o",
              "n","i","n","g",","," ","a","n","d"," ","c","l","u","s","t","e","r","i","n","g",
              ","," ","y","o","u"," ","c","a","n">>,
    (* 316 *) <<"r","e","d","u","c","e"," ","t","h","e"," ","a","m","o","u","n","t"," ","o","f"," ","d","a",
              "t","a"," ","p","r","o","c","e","s","s","e","d"," ","a","n","d"," ","t","h","e",
              " ","r","e","s","o","u","r","c","e","s"," ","c","o","n","s","u","m","e","d",".">>,
    (* 317 *) << >>,
    (* 318 *) <<"A","l","w","a","y","s"," ","k","e","e","p"," ","a","n"," ","e","y","e"," ","o","n"," ","t",
              "h","e"," ","e","x","e","c","u","t","i","o","n"," ","g","r","a","p","h","."," ",
              "I","t"," ","t","e","l","l","s"," ","y","o","u"," ","m","o","r","e"," ","a","b",
              "o","u","t"," ","y","o","u","r"," ","q","u","e","r","y","'","s">>,
    (* 319 *) <<"h","e","a","l","t","h"," ","t","h","a","n"," ","t","h","e"," ","e","x","e","c","u","t","i",
              "o","n"," ","t","i","m","e","r"," ","e","v","e","r"," ","w","i","l","l",".">>,
    (* 320 *) << >>,
    (* 321 *) <<"#","#","#"," ","C","i","t","a","t","i","o","n","s"," ","a","n","d"," ","F","u","r","t","h",
              "e","r"," ","R","e","a","d","i","n","g">>,
    (* 322 *) << >>,
    (* 323 *) <<"*"," ","[","G","o","o","g","l","e"," ","C","l","o","u","d",":"," ","B","i","g","Q","u","e",
              "r","y"," ","E","x","p","l","a","i","n","e","d"," ","-"," ","S","t","o","r","a",
              "g","e"," ","O","v","e","r","v","i","e","w","]","(","h","t","t","p","s",":","/",
              "/","c","l","o","u","d",".","g","o","o","g","l","e",".","c","o","m","/","b","l",
              "o","g","/","p","r","o","d","u","c","t","s","/","d","a","t","a","-","a","n","a",
              "l","y","t","i","c","s","/","b","i","g","q","u","e","r","y","-","e","x","p","l",
              "a","i","n","e","d","-","s","t","o","r","a","g","e","-","o","v","e","r","v","i",
              "e","w",")">>,
    (* 324 *) <<"*"," ","[","O","f","f","i","c","i","a","l"," ","B","i","g","Q","u","e","r","y"," ","P","r",
              "i","c","i","n","g"," ","G","u","i","d","e","]","(","h","t","t","p","s",":","/",
              "/","c","l","o","u","d",".","g","o","o","g","l","e",".","c","o","m","/","b","i",
              "g","q","u","e","r","y","/","p","r","i","c","i","n","g",")">>,
    (* 325 *) <<"*"," ","[","A"," ","G","u","i","d","e"," ","t","o"," ","U","s","i","n","g"," ","W","i","n",
              "d","o","w"," ","F","u","n","c","t","i","o","n","s","]","(","h","t","t","p","s",
              ":","/","/","m","e","d","i","u","m",".","c","o","m","/","d","a","t","a","-","s",
              "c","i","e","n","c","e","/","a","-","g","u","i","d","e","-","t","o","-","u","s",
              "i","n","g","-","w","i","n","d","o","w","-","f","u","n","c","t","i","o","n","s",
              "-","4","b","2","7","6","8","f","5","8","9","d","9",")">>,
    (* 326 *) <<"*"," ","[","M","a","s","t","e","r","i","n","g"," ","A","r","r","a","y","s"," ","i","n"," ",
              "B","i","g","Q","u","e","r","y"," ","(","2","0","2","4",")","]","(","h","t","t",
              "p","s",":","/","/","m","e","d","i","u","m",".","c","o","m","/","@","t","h","o",
              "m","a","s",".","e","l","l","y","a","t","t","/","m","a","s","t","e","r","i","n",
              "g","-","a","r","r","a","y","s","-","i","n","-","b","i","g","q","u","e","r","y",
              "-","2","0","2","4","-","e","6","2","6","1","2","b","1","5","c","3","0",")">>,
    (* 327 *) <<"*"," ","[","A"," ","G","u","i","d","e"," ","t","o"," ","S","e","a","r","c","h"," ","I","n",
              "d","e","x","e","s"," ","i","n"," ","B","i","g","Q","u","e","r","y","]","(","h",
              "t","t","p","s",":","/","/","m","e","d","i","u","m",".","c","o","m","/","@","t",
              "h","o","m","a","s",".","e","l","l","y","a","t","t","/","a","-","g","u","i","d",
              "e","-","t","o","-","s","e","a","r","c","h","-","i","n","d","e","x","e","s","-",
              "i","n","-","b","i","g","q","u","e","r","y","-","3","d","2","b","5","8","6","e",
              "1","0","f","b",")">>,
    (* 328 *) <<"*"," ","[","B","i","g","Q","u","e","r","y"," ","E","f","f","i","c","i","e","n","c","y",":",
              " ","H","o","w"," ","I"," ","R","e","d","u","c","e","d"," ","T","a","b","l","e",
              " ","S","i","z","e"," ","b","y"," ","3","5","%","]","(","h","t","t","p","s",":",
              "/","/","t","o","w","a","r","d","s","d","a","t","a","s","c","i","e","n","c","e",
              ".","c","o","m","/","b","i","g","q","u","e","r","y","-","e","f","f","i","c","i",
              "e","n","c","y","-","h","o","w","-","i","-","r","e","d","u","c","e","d","-","m",
              "y","-","t","a","b","l","e","-","s","i","z","e","-","b","y","-","3","5","-","5",
              "-","a","n","d","-","r","o","w","s","-","b","y","-","9","3","-","1","-","d","c",
              "8","b","9","b","7","2","7","6","f","f","/",")">>,
    (* 329 *) <<"*"," ","[","C","l","u","s","t","e","r","i","n","g"," ","f","o","r"," ","I","m","p","r","o",
              "v","e","d"," ","P","e","r","f","o","r","m","a","n","c","e"," ","(","2","0","2",
              "4",")","]","(","h","t","t","p","s",":","/","/","m","e","d","i","u","m",".","c",
              "o","m","/","@","t","h","o","m","a","s",".","e","l","l","y","a","t","t","/","c",
              "l","u","s","t","e","r","i","n","g","-","f","o","r","-","i","m","p","r","o","v",
              "e","d","-","p","e","r","f","o","r","m","a","n","c","e","-","i","n","-","b","i",
              "g","q","u","e","r","y","-","2","0","2","4","-","5","5","c","9","2","8","5","8",
              "2","8","d","d",")">>,
    (* 330 *) <<"*"," ","[","W","h","y"," ","P","a","r","t","i","t","i","o","n","i","n","g"," ","T","a","b",
              "l","e","s"," ","i","s"," ","E","s","s","e","n","t","i","a","l"," ","(","2","0",
              "2","4",")","]","(","h","t","t","p","s",":","/","/","m","e","d","i","u","m",".",
              "c","o","m","/","@","t","h","o","m","a","s",".","e","l","l","y","a","t","t","/",
              "w","h","y","-","p","a","r","t","i","t","i","o","n","i","n","g","-","t","a","b",
              "l","e","s","-","i","s","-","e","s","s","e","n","t","i","a","l","-","i","n","-",
              "b","i","g","q","u","e","r","y","-","2","0","2","4","-","6","e","7","7","1","c",
              "9","f","c","2","8","8",")">>,
    (* 331 *) <<"*"," ","[","U","l","t","i","m","a","t","e"," ","G","u","i","d","e"," ","t","o"," ","S","a",
              "v","i","n","g"," ","T","i","m","e"," ","a","n","d"," ","M","o","n","e","y"," ",
              "w","i","t","h"," ","B","i","g","Q","u","e","r","y","]","(","h","t","t","p","s",
              ":","/","/","m","e","d","i","u","m",".","c","o","m","/","@","t","h","o","m","a",
              "s",".","e","l","l","y","a","t","t","/","u","l","t","i","m","a","t","e","-","g",
              "u","i","d","e","-","t","o","-","s","a","v","i","n","g","-","t","i","m","e","-",
              "a","n","d","-","m","o","n","e","y","-","w","i","t","h","-","b","i","g","q","u",
              "e","r","y","-","f","2","c","d","d","c","1","a","f","1","a","d",")">>,
    (* 332 *) <<"*"," ","[","B","u","r","n"," ","D","a","t","a"," ","R","a","t","h","e","r"," ","T","h","a",
              "n"," ","M","o","n","e","y"," ","w","i","t","h"," ","B","i","g","Q","u","e","r",
              "y",":"," ","T","h","e"," ","D","e","f","i","n","i","t","i","v","e"," ","G","u",
              "i","d","e","]","(","h","t","t","p","s",":","/","/","t","o","w","a","r","d","s",
              "d","a","t","a","s","c","i","e","n","c","e",".","c","o","m","/","b","u","r","n",
              "-","d","a","t","a","-","r","a","t","h","e","r","-","t","h","a","n","-","m","o",
              "n","e","y","-","w","i","t","h","-","b","i","g","q","u","e","r","y","-","t","h",
              "e","-","d","e","f","i","n","i","t","i","v","e","-","g","u","i","d","e","-","1",
              "b","5","0","a","9","f","d","f","0","9","6","/",")">>,
    (* 333 *) <<"*"," ","[","Q","u","e","r","y"," ","O","p","t","i","m","i","s","a","t","i","o","n"," ","B",
              "e","s","t"," ","P","r","a","c","t","i","c","e","s"," ","f","o","r"," ","D","a",
              "t","a"," ","A","n","a","l","y","s","t","s","]","(","h","t","t","p","s",":","/",
              "/","m","e","d","i","u","m",".","c","o","m","/","@","s","h","e","e","r","w","o",
              "l","f","f","/","q","u","e","r","y","-","o","p","t","i","m","i","z","a","t","i",
              "o","n","-","i","n","-","b","i","g","q","u","e","r","y","-","b","e","s","t","-",
              "p","r","a","c","t","i","c","e","s","-","f","o","r","-","d","a","t","a","-","a",
              "n","a","l","y","s","t","s","-","9","a","b","a","6","c","f","6","8","f","e","a",
              ")">>,
    (* 334 *) <<"*"," ","[","W","h","y"," ","Y","o","u","r"," ","5","-","S","e","c","o","n","d"," ","B","i",
              "g","Q","u","e","r","y"," ","Q","u","e","r","y"," ","I","s","n","U+2019","t"," ",
              "C","h","e","a","p","]","(","h","t","t","p","s",":","/","/","l","u","m","i","n",
              "o","u","s","m","e","n",".","s","u","b","s","t","a","c","k",".","c","o","m","/",
              "p","/","w","h","y","-","y","o","u","r","-","5","-","s","e","c","o","n","d","-",
              "b","i","g","q","u","e","r","y","-","q","u","e","r","y",")">>
  >>

\* A plausible slip of the article: the fence closing the first code block
\* (line 71) left out.
indexMd_FenceDropped ==
  SubSeq(indexMdText, 1, 70) \o SubSeq(indexMdText, 72, Len(indexMdText))

\* A plausible slip of the article: pubDate set to the 30th of February.
indexMd_BadDate ==
  [indexMdText EXCEPT ![4] =
     <<"p","u","b","D","a","t","e",":"," ","\"","2","0","2","6","-","0","2","-","3","0","\"">>]

\* A plausible slip of the article: a tag written twice.
indexMd_TagTwice ==
  [indexMdText EXCEPT ![5] =
     <<"t","a","g","s",":"," ","[","\"","g","c","p","\"",","," ","\"","g","c","p","\"","]">>]

\* A plausible slip of the article: a cell of the delimiter row (line 302)
\* left out.
indexMd_ShortDelimiter ==
  [indexMdText EXCEPT ![302] =
     <<"|"," ",":","-","-","-"," ","|"," ",":","-","-","-"," ","|">>]

indexMd == indexMdText

(***************************************************************************)
(* Absolute URLs and path prefixes (the site and base values).             *)
(***************************************************************************)
SchemeChars == Alpha \cup Digits \cup {"+", "-", "."}

\* The characters that end the authority part of a URL.
HostEnd == {"/", "?", "#"}

\* The length of the host that starts at position k of s.
HostLen(s, k) ==
  LET ends == {j \in k..Len(s) : s[j] \in HostEnd}
  IN  IF ends = {} THEN Len(s) - k + 1 ELSE Min(ends) - k

\* s is scheme "://" host ..., with a well-formed scheme, a non-empty host and
\* no space.
ValidAbsoluteURL(s) ==
  LET k == IndexFrom(s, ":", 1)
  IN  /\ k > 1
      /\ s[1] \in Alpha
      /\ \A j \in 2..(k - 1) : s[j] \in SchemeChars
      /\ Len(s) >= k + 3
      /\ s[k + 1] = "/"
      /\ s[k + 2] = "/"
      /\ HostLen(s, k + 3) >= 1
      /\ " " \notin Range(s)

\* s is a URL path prefix: it begins with "/" and holds no space.
ValidPathPrefix(s) ==
  /\ Len(s) >= 1
  /\ s[1] = "/"
  /\ " " \notin Range(s)

(***************************************************************************)
(* Glob patterns (the content list of the style configuration).            *)
(***************************************************************************)
\* The pattern without a leading "./".
StripDotSlash(p) == IF StartsWith(p, <<".", "/">>) THEN From(p, 3) ELSE p

\* The patterns a pattern stands for, its first brace group {a,b,...}
\* replaced by each alternative in turn, and so on for the groups left.
RECURSIVE Expand(_)
Expand(p) ==
  LET open  == IndexFrom(p, "{", 1)
      close == IF open = 0 THEN 0 ELSE IndexFrom(p, "}", open + 1)
  IN  IF open = 0 \/ close = 0 THEN {p}
      ELSE LET alts == Split(SubSeq(p, open + 1, close - 1), ",")
           IN  UNION { Expand(SubSeq(p, 1, open - 1) \o alts[a] \o From(p, close + 1))
                       : a \in 1..Len(alts) }

\* Whether the brace-free pattern p matches the whole path s: "**/" stands
\* for any number of directories, "*" for any characters but "/", "?" for
\* one character but "/".
RECURSIVE GlobMatch(_, _)
GlobMatch(p, s) ==
  IF p = << >> THEN s = << >>
  ELSE IF StartsWith(p, <<"*", "*", "/">>)
    THEN \/ GlobMatch(From(p, 4), s)
         \/ \E k \in 1..Len(s) : s[k] = "/" /\ GlobMatch(p, From(s, k + 1))
  ELSE IF p[1] = "*"
    THEN \/ GlobMatch(Tail(p), s)
         \/ s # << >> /\ s[1] # "/" /\ GlobMatch(p, Tail(s))
  ELSE IF p[1] = "?"
    THEN s # << >> /\ s[1] # "/" /\ GlobMatch(Tail(p), Tail(s))
  ELSE s # << >> /\ s[1] = p[1] /\ GlobMatch(Tail(p), Tail(s))

\* Whether the pattern selects the file at path.
Selects(pattern, path) ==
  \E q \in Expand(StripDotSlash(pattern)) : GlobMatch(q, path)

(***************************************************************************)
(* Front-matter: "key: value" lines between two "---" lines.               *)
(***************************************************************************)
FrontMatterDelimiter == <<"-", "-", "-">>

\* Whether an unescaped double quote stands at position k of s.
QuoteAt(s, k) == s[k] = "\"" /\ ~Escaped(s, k)

\* The position of the first unescaped double quote of s from position k on,
\* or 0.
ClosingQuote(s, k) ==
  LET at == {j \in k..Len(s) : QuoteAt(s, j)}
  IN  IF at = {} THEN 0 ELSE Min(at)

\* A scalar: a double-quoted string, or a plain scalar.
ParseScalar(raw) ==
  IF Len(raw) >= 2 /\ raw[1] = "\"" /\ ClosingQuote(raw, 2) = Len(raw)
  THEN [type |-> "string", value |-> SubSeq(raw, 2, Len(raw) - 1), items |-> << >>]
  ELSE [type |-> "plain", value |-> raw, items |-> << >>]

\* Whether position k of s lies within double quotes: an odd number of
\* unescaped double quotes stands before it.
Quoted(s, k) == Cardinality({j \in 1..(k - 1) : QuoteAt(s, j)}) % 2 = 1

\* The items of a flow sequence's inside: s split at the commas that are not
\* within double quotes.
FlowItems(s) == Pieces(s, {j \in 1..Len(s) : s[j] = "," /\ ~Quoted(s, j)})

\* A value: a flow sequence [a, b, ...] of scalars, or a scalar.
ParseValue(raw) ==
  IF Len(raw) >= 2 /\ raw[1] = "[" /\ raw[Len(raw)] = "]"
  THEN LET inside == Trim(SubSeq(raw, 2, Len(raw) - 1))
           parts  == IF inside = << >> THEN << >> ELSE FlowItems(inside)
       IN  [type  |-> "list",
            value |-> << >>,
            items |-> [k \in 1..Len(parts) |-> ParseScalar(Trim(parts[k]))]]
  ELSE ParseScalar(raw)

\* A front-matter line "key: value" as a field.  A line without a colon is a
\* field with an empty key.
ParseField(l) ==
  LET k == IndexFrom(l, ":", 1)
  IN  IF k = 0 THEN [key |-> << >>, value |-> ParseScalar(Trim(l))]
      ELSE [key |-> Trim(SubSeq(l, 1, k - 1)), value |-> ParseValue(Trim(From(l, k + 1)))]

(***************************************************************************)
(* Calendar dates written YYYY-MM-DD.                                      *)
(***************************************************************************)
IsLeapYear(y) == (y % 4 = 0 /\ y % 100 # 0) \/ y % 400 = 0

DaysInMonth(y, m) ==
  IF m = 2 THEN (IF IsLeapYear(y) THEN 29 ELSE 28)
  ELSE IF m \in {4, 6, 9, 11} THEN 30
  ELSE 31

\* The number written by the digits of s.
RECURSIVE Number(_)
Number(s) ==
  IF s = << >> THEN 0 ELSE 10 * Number(SubSeq(s, 1, Len(s) - 1)) + DigitVal(s[Len(s)])

\* Whether s is YYYY-MM-DD.
IsDateShape(s) ==
  /\ Len(s) = 10
  /\ s[5] = "-"
  /\ s[8] = "-"
  /\ \A k \in {1, 2, 3, 4, 6, 7, 9, 10} : s[k] \in Digits

\* The date s writes; ok tells whether s writes a date of the calendar.
ParseDate(s) ==
  IF ~IsDateShape(s) THEN [ok |-> FALSE, year |-> 0, month |-> 0, day |-> 0]
  ELSE LET y == Number(SubSeq(s, 1, 4))
           m == Number(SubSeq(s, 6, 7))
           d == Number(SubSeq(s, 9, 10))
       IN  [ok    |-> m \in 1..12 /\ d >= 1 /\ d <= DaysInMonth(y, m),
            year  |-> y,
            month |-> m,
            day   |-> d]

(***************************************************************************)
(* The kinds of line of the article's body.                                *)
(***************************************************************************)
\* A code fence: at most three spaces, then three backticks or three tildes.
IsFence(l) ==
  /\ Indent(l) <= 3
  /\ \/ StartsWith(TrimLeft(l), <<Backtick, Backtick, Backtick>>)
     \/ StartsWith(TrimLeft(l), <<"~", "~", "~">>)

\* The number of "#" that s begins with.
Hashes(s) == LeadingRun(s, "#")

\* An ATX heading: at most three spaces, one to six "#", then a space or the
\* end of the line.
IsHeading(l) ==
  LET t == TrimLeft(l)
      n == Hashes(t)
  IN  /\ Indent(l) <= 3
      /\ n \in 1..6
      /\ (Len(t) = n \/ t[n + 1] = " ")

\* A horizontal rule: at most three spaces, then three or more of one of
\* "-", "*", "_", with nothing but spaces between and after them.
IsRule(l) ==
  LET marks == SelectSeq(l, LAMBDA c : c # " ")
  IN  /\ Indent(l) <= 3
      /\ Len(marks) >= 3
      /\ marks[1] \in {"-", "*", "_"}
      /\ \A k \in 1..Len(marks) : marks[k] = marks[1]

\* A table row: a line that begins with a pipe.
IsTableRow(l) == StartsWith(TrimLeft(l), <<"|">>)

\* Whether an unescaped pipe stands at position k of s.
PipeAt(s, k) == s[k] = "|" /\ ~Escaped(s, k)

\* The cells of a row: the row without its leading and its trailing pipe,
\* split at the pipes that no backslash escapes.
RowCells(l) ==
  LET t == Trim(l)
      a == IF t # << >> /\ t[1] = "|" THEN Tail(t) ELSE t
      b == IF a # << >> /\ PipeAt(a, Len(a)) THEN SubSeq(a, 1, Len(a) - 1) ELSE a
  IN  Pieces(b, {j \in 1..Len(b) : PipeAt(b, j)})

\* A cell of a delimiter row: dashes, with an optional colon on either side.
IsDelimiterCell(c) ==
  LET t == Trim(c)
      a == IF t # << >> /\ t[1] = ":" THEN Tail(t) ELSE t
      b == IF a # << >> /\ a[Len(a)] = ":" THEN SubSeq(a, 1, Len(a) - 1) ELSE a
  IN  b # << >> /\ \A k \in 1..Len(b) : b[k] = "-"

IsDelimiterRow(l) ==
  LET cells == RowCells(l)
  IN  \A k \in 1..Len(cells) : IsDelimiterCell(cells[k])

\* A line that would open a block if it were read outside a code block.
IsStructure(l) == IsHeading(l) \/ IsRule(l) \/ IsTableRow(l)

(***************************************************************************)
(* The reader's state.                                                     *)
(***************************************************************************)
VARIABLES
  pc,            \* what is read next: "site", "theme", "themeExtend",
                 \* "themePlugins", "glob", "open", "front", "body", or
                 \* "done"
  siteConfig,    \* the site configuration record, once read
  themeConfig,   \* the theme configuration record, as far as evaluated
  themeStatus,   \* "pending", "exported", or "threw"
  themeError,    \* the error thrown by tailwind.config.mjs, or ""
  fileIx,        \* the next of RepoFiles to hold against the content globs
  hits,          \* per content glob, the files (by index) it selects
  line,          \* the next line of the article to read
  frontMatter,   \* the front-matter fields read, in order
  frontClosed,   \* whether the front-matter block was closed
  inCode,        \* the fence scanner: inside a code block or outside
  opened,        \* the code blocks opened so far
  closed,        \* the code blocks closed so far
  structInCode,  \* the lines read inside a code block that look like a
                 \* heading, a table row or a horizontal rule
  rows,          \* the rows of the table being read
  tables         \* the tables read to their end

vars ==
  <<pc, siteConfig, themeConfig, themeStatus, themeError, fileIx, hits, line,
    frontMatter, frontClosed,
    inCode, opened, closed, structInCode, rows, tables>>

themeVars == <<themeConfig, themeStatus, themeError>>

configVars == <<siteConfig, themeVars, fileIx, hits>>

frontVars == <<frontMatter, frontClosed>>

fenceVars == <<inCode, opened, closed, structInCode>>

tableVars == <<rows, tables>>

NoSiteConfig == [site |-> << >>, base |-> << >>, integrations |-> << >>]

Init ==
  /\ pc = "site"
  /\ siteConfig = NoSiteConfig
  /\ themeConfig = NoThemeConfig
  /\ themeStatus = "pending"
  /\ themeError = ""
  /\ fileIx = 1
  /\ hits = << >>
  /\ line = 1
  /\ frontMatter = << >>
  /\ frontClosed = FALSE
  /\ inCode = FALSE
  /\ opened = 0
  /\ closed = 0
  /\ structInCode = {}
  /\ rows = << >>
  /\ tables = << >>

(***************************************************************************)
(* Reading the two configuration records.                                  *)
(***************************************************************************)
ReadSiteConfig ==
  /\ pc = "site"
  /\ siteConfig' = astroConfig
  /\ pc' = "theme"
  /\ UNCHANGED <<themeVars, fileIx, hits, line, frontVars, fenceVars, tableVars>>

\* tailwind.config.mjs is evaluated property by property.
EvalThemeContent ==
  /\ pc = "theme"
  /\ themeConfig' = themeWithContent
  /\ pc' = "themeExtend"
  /\ UNCHANGED <<siteConfig, themeStatus, themeError, fileIx, hits, line,
                 frontVars, fenceVars, tableVars>>

EvalThemeExtend ==
  /\ pc = "themeExtend"
  /\ themeConfig' = themeWithExtend
  /\ pc' = "themePlugins"
  /\ UNCHANGED <<siteConfig, themeStatus, themeError, fileIx, hits, line,
                 frontVars, fenceVars, tableVars>>

\* The plugins property calls require.  Where the loader provides one, the
\* record is exported and its globs are resolved next; where it provides
\* none, the module throws, nothing is exported, and no glob is resolved.
EvalThemePlugins ==
  /\ pc = "themePlugins"
  /\ \E requireDefined \in BOOLEAN :
       LET r == tailwindConfig(requireDefined)
       IN  IF r.threw
           THEN /\ themeConfig' = r.value
                /\ themeStatus' = "threw"
                /\ themeError' = r.error
                /\ hits' = hits
                /\ pc' = "open"
           ELSE /\ themeConfig' = r.value
                /\ themeStatus' = "exported"
                /\ themeError' = ""
                /\ hits' = [k \in 1..Len(r.value.content) |-> {}]
                /\ pc' = "glob"
  /\ UNCHANGED <<siteConfig, fileIx, line, frontVars, fenceVars, tableVars>>

(***************************************************************************)
(* Holding each file of the repository against the content globs.          *)
(***************************************************************************)
MatchFile ==
  /\ pc = "glob"
  /\ fileIx <= Len(RepoFiles)
  /\ hits' = [k \in 1..Len(themeConfig.content) |->
                IF Selects(themeConfig.content[k], RepoFiles[fileIx])
                THEN hits[k] \cup {fileIx}
                ELSE hits[k]]
  /\ fileIx' = fileIx + 1
  /\ UNCHANGED <<pc, siteConfig, themeVars, line, frontVars, fenceVars, tableVars>>

GlobsDone ==
  /\ pc = "glob"
  /\ fileIx > Len(RepoFiles)
  /\ pc' = "open"
  /\ UNCHANGED <<configVars, line, frontVars, fenceVars, tableVars>>

(***************************************************************************)
(* Reading the article's front-matter.                                     *)
(***************************************************************************)
\* The article opens with a front-matter block when its first line is "---";
\* otherwise all of it is body.
BeginDocument ==
  /\ pc = "open"
  /\ IF Len(indexMd) >= 1 /\ indexMd[1] = FrontMatterDelimiter
     THEN pc' = "front" /\ line' = 2
     ELSE pc' = "body" /\ line' = 1
  /\ UNCHANGED <<configVars, frontVars, fenceVars, tableVars>>

ReadField ==
  /\ pc = "front"
  /\ line <= Len(indexMd)
  /\ indexMd[line] # FrontMatterDelimiter
  /\ frontMatter' = Append(frontMatter, ParseField(indexMd[line]))
  /\ line' = line + 1
  /\ UNCHANGED <<pc, configVars, frontClosed, fenceVars, tableVars>>

EndFrontMatter ==
  /\ pc = "front"
  /\ line <= Len(indexMd)
  /\ indexMd[line] = FrontMatterDelimiter
  /\ frontClosed' = TRUE
  /\ pc' = "body"
  /\ line' = line + 1
  /\ UNCHANGED <<configVars, frontMatter, fenceVars, tableVars>>

(***************************************************************************)
(* Scanning the article's body, one line a step.                           *)
(***************************************************************************)
\* A line that is no table row ends the table being read, if any.
EndTable ==
  /\ tables' = IF rows = << >> THEN tables ELSE Append(tables, rows)
  /\ rows' = << >>

AtBodyLine ==
  /\ pc = "body"
  /\ line <= Len(indexMd)

\* A fence line toggles the scanner.
ScanFence ==
  /\ AtBodyLine
  /\ IsFence(indexMd[line])
  /\ inCode' = ~inCode
  /\ opened' = IF inCode THEN opened ELSE opened + 1
  /\ closed' = IF inCode THEN closed + 1 ELSE closed
  /\ EndTable
  /\ line' = line + 1
  /\ UNCHANGED <<pc, configVars, frontVars, structInCode>>

\* Inside a code block every other line is code.
ScanCode ==
  /\ AtBodyLine
  /\ inCode
  /\ ~IsFence(indexMd[line])
  /\ structInCode' =
       IF IsStructure(indexMd[line]) THEN structInCode \cup {line} ELSE structInCode
  /\ line' = line + 1
  /\ UNCHANGED <<pc, configVars, frontVars, inCode, opened, closed, tableVars>>

ScanHeading ==
  /\ AtBodyLine
  /\ ~inCode
  /\ ~IsFence(indexMd[line])
  /\ IsHeading(indexMd[line])
  /\ EndTable
  /\ line' = line + 1
  /\ UNCHANGED <<pc, configVars, frontVars, fenceVars>>

ScanRule ==
  /\ AtBodyLine
  /\ ~inCode
  /\ ~IsFence(indexMd[line])
  /\ ~IsHeading(indexMd[line])
  /\ IsRule(indexMd[line])
  /\ EndTable
  /\ line' = line + 1
  /\ UNCHANGED <<pc, configVars, frontVars, fenceVars>>

ScanTableRow ==
  /\ AtBodyLine
  /\ ~inCode
  /\ ~IsFence(indexMd[line])
  /\ IsTableRow(indexMd[line])
  /\ rows' = Append(rows, [line      |-> line,
                           cells     |-> Len(RowCells(indexMd[line])),
                           delimiter |-> IsDelimiterRow(indexMd[line])])
  /\ line' = line + 1
  /\ UNCHANGED <<pc, configVars, frontVars, fenceVars, tables>>

ScanText ==
  /\ AtBodyLine
  /\ ~inCode
  /\ ~IsFence(indexMd[line])
  /\ ~IsStructure(indexMd[line])
  /\ EndTable
  /\ line' = line + 1
  /\ UNCHANGED <<pc, configVars, frontVars, fenceVars>>

\* The end of the file.
Finish ==
  /\ pc \in {"front", "body"}
  /\ line > Len(indexMd)
  /\ EndTable
  /\ pc' = "done"
  /\ UNCHANGED <<configVars, line, frontVars, fenceVars>>

Next ==
  \/ ReadSiteConfig
  \/ EvalThemeContent
  \/ EvalThemeExtend
  \/ EvalThemePlugins
  \/ MatchFile
  \/ GlobsDone
  \/ BeginDocument
  \/ ReadField
  \/ EndFrontMatter
  \/ ScanFence
  \/ ScanCode
  \/ ScanHeading
  \/ ScanRule
  \/ ScanTableRow
  \/ ScanText
  \/ Finish

Spec == Init /\ [][Next]_vars

(***************************************************************************)
(* What the reader has read.                                               *)
(***************************************************************************)
SiteRead == pc # "site"

\* The content property of the theme configuration has been evaluated.
ContentEvaluated == pc \in {"themeExtend", "themePlugins"} \/ themeStatus = "exported"

\* The theme property of the theme configuration has been evaluated.
ExtendEvaluated == pc = "themePlugins" \/ themeStatus = "exported"

GlobsResolved == themeStatus = "exported" /\ pc # "glob"

FrontMatterRead == pc \in {"body", "done"}

\* The values of the front-matter fields named key.
FieldValues(key) ==
  {frontMatter[k].value : k \in {j \in 1..Len(frontMatter) : frontMatter[j].key = key}}

titleKey == <<"t","i","t","l","e">>

descriptionKey == <<"d","e","s","c","r","i","p","t","i","o","n">>

pubDateKey == <<"p","u","b","D","a","t","e">>

tagsKey == <<"t","a","g","s">>

\* Whether the front-matter holds a field named key.
HasField(key) == FieldValues(key) # {}

IsString(v) == v.type = "string"

IsDate(v) == v.type \in {"string", "plain"} /\ ParseDate(v.value).ok

IsStringList(v) ==
  /\ v.type = "list"
  /\ \A k \in 1..Len(v.items) : IsString(v.items[k])

\* The tables read so far, the one being read included.
AllTables == IF rows = << >> THEN tables ELSE Append(tables, rows)

\* "#" and exactly six hexadecimal digits.
IsHexColor(v) ==
  /\ Len(v) = 7
  /\ v[1] = "#"
  /\ \A k \in 2..7 : v[k] \in HexDigits

tuiTokens == {"bg", "fg", "accent", "dim", "border", "selection"}

monospace == <<"m","o","n","o","s","p","a","c","e">>

mdSuffix == <<".","m","d">>

srcDir == <<"s","r","c","/">>

EndsWith(s, p) == Len(s) >= Len(p) /\ SubSeq(s, Len(s) - Len(p) + 1, Len(s)) = p

(***************************************************************************)
(* The claims.                                                             *)
(***************************************************************************)

\* C1: the site configuration record exported by astro.config.mjs has a
\* syntactically valid absolute URL as its site value (a scheme, then "://",
\* then a non-empty host) and a string that begins with "/" as its base value.
C1_SiteConfigValid ==
  SiteRead =>
    /\ ValidAbsoluteURL(siteConfig.site)
    /\ ValidPathPrefix(siteConfig.base)

\* The site configuration has been read and holds the authored site and base.
C1_Witness ==
  /\ pc = "theme"
  /\ Len(siteConfig.site) > 0
  /\ Len(siteConfig.base) > 0

\* C2: the front-matter block of the article holds title, description,
\* pubDate and tags; title and description are strings, pubDate writes a
\* date of the calendar (month 1..12, day within the month's length), and
\* tags is a list of strings.
C2_FrontMatterTyped ==
  FrontMatterRead =>
    /\ frontClosed
    /\ \A key \in {titleKey, descriptionKey, pubDateKey, tagsKey} : HasField(key)
    /\ \A v \in FieldValues(titleKey) : IsString(v)
    /\ \A v \in FieldValues(descriptionKey) : IsString(v)
    /\ \A v \in FieldValues(pubDateKey) : IsDate(v)
    /\ \A v \in FieldValues(tagsKey) : IsStringList(v)

\* The front-matter block has been read to its closing line, with its four
\* fields, and pubDate was parsed into a year, a month and a day.
C2_Witness ==
  /\ pc = "body"
  /\ frontClosed
  /\ Len(frontMatter) = 4
  /\ \E v \in FieldValues(pubDateKey) :
       LET d == ParseDate(v.value)
       IN  d.ok /\ d.year = 2026 /\ d.month = 2 /\ d.day = 13

\* C3: the article's code fences are balanced.  The two-state scanner, which
\* toggles on each fence line, has closed every code block it opened but at
\* most the one it is inside; it has read no heading, table row or horizontal
\* rule inside a code block; and it is outside when the end of the file is
\* reached.
C3_FencesBalanced ==
  /\ structInCode = {}
  /\ opened = closed + (IF inCode THEN 1 ELSE 0)
  /\ pc = "done" => ~inCode /\ opened = closed

\* The scanner reached the end of the file having opened and closed the
\* article's seven code blocks.
C3_Witness ==
  /\ pc = "done"
  /\ opened = 7
  /\ closed = 7

\* C4: the article's table has valid syntax: its header row is immediately
\* followed by a delimiter row, and the header row, the delimiter row and
\* every body row have three cells.
C4_TableValid ==
  /\ \A t \in 1..Len(AllTables) :
       LET tbl == AllTables[t]
       IN  /\ \A r \in 1..Len(tbl) : tbl[r].cells = 3
           /\ ~tbl[1].delimiter
           /\ Len(tbl) >= 2 =>
                /\ tbl[2].delimiter
                /\ tbl[2].line = tbl[1].line + 1
  /\ pc = "done" =>
       /\ Len(tables) = 1
       /\ Len(tables[1]) >= 2

\* The scanner reached the end of the file having read one table: a header
\* row, a delimiter row and five body rows.
C4_Witness ==
  /\ pc = "done"
  /\ Len(tables) = 1
  /\ Len(tables[1]) = 7
  /\ tables[1][1].line = 301

\* C5: every glob pattern of the style configuration's content list selects
\* at least one file under the site's src directory, and its md alternative
\* matches the article src/content/blog/big-query/index.md.
C5_GlobsSelect ==
  /\ ContentEvaluated =>
       /\ Len(themeConfig.content) >= 1
       /\ \A k \in 1..Len(themeConfig.content) :
            /\ \E f \in 1..Len(RepoFiles) :
                 /\ StartsWith(RepoFiles[f], srcDir)
                 /\ Selects(themeConfig.content[k], RepoFiles[f])
            /\ \E q \in Expand(StripDotSlash(themeConfig.content[k])) :
                 /\ EndsWith(q, mdSuffix)
                 /\ GlobMatch(q, indexMdPath)
  /\ GlobsResolved =>
       \A k \in 1..Len(themeConfig.content) :
         \E f \in hits[k] : StartsWith(RepoFiles[f], srcDir)

\* Every file of the repository was held against the content glob, which
\* selected the article and neither configuration file.
C5_Witness ==
  /\ pc = "open"
  /\ themeStatus = "exported"
  /\ Len(hits) = 1
  /\ hits[1] = {3}

\* C9: the tags of the article form a set of non-empty strings: the list is
\* not empty, every tag has length at least 1, and no tag occurs twice.
C9_TagsFormSet ==
  FrontMatterRead =>
    /\ HasField(tagsKey)
    /\ \A v \in FieldValues(tagsKey) :
         /\ v.type = "list"
         /\ Len(v.items) >= 1
         /\ \A k \in 1..Len(v.items) : Len(v.items[k].value) >= 1
         /\ \A j, k \in 1..Len(v.items) :
              j # k => v.items[j].value # v.items[k].value

\* The tags field has been read as a list of four tags.
C9_Witness ==
  /\ FrontMatterRead
  /\ \E v \in FieldValues(tagsKey) : v.type = "list" /\ Len(v.items) = 4

\* C10: the theme extension's color tokens are the six tui tokens bg, fg,
\* accent, dim, border and selection, each named once and each "#" followed
\* by exactly six hexadecimal digits; and the mono font token is a non-empty
\* sequence of font names that ends with the generic family monospace.
C10_ThemeTokensValid ==
  ExtendEvaluated =>
    LET tui  == themeConfig.theme.extend.colors.tui
        mono == themeConfig.theme.extend.fontFamily.mono
    IN  /\ {tui[k][1] : k \in 1..Len(tui)} = tuiTokens
        /\ \A j, k \in 1..Len(tui) : j # k => tui[j][1] # tui[k][1]
        /\ \A k \in 1..Len(tui) : IsHexColor(tui[k][2])
        /\ Len(mono) >= 1
        /\ \A k \in 1..Len(mono) : Len(mono[k]) >= 1
        /\ mono[Len(mono)] = monospace

\* The theme property has been evaluated, with its six color tokens and its
\* three mono fonts, and the plugins property is next.
C10_Witness ==
  /\ pc = "themePlugins"
  /\ Len(themeConfig.theme.extend.colors.tui) = 6
  /\ Len(themeConfig.theme.extend.fontFamily.mono) = 3

=============================================================================
